---- MODULE Spec2Model ----
(***************************************************************************)
(* Page fragmentation engine of schemati: Fragmenter.tile_page with its    *)
(* two tiling modes (grid and fixed size), the complexity filter, the Page *)
(* object that stores the fragment list, the settings object the calls     *)
(* fall back to, and the image resizer of DocumentFactory.                 *)
(*                                                                         *)
(* Numbers.  overlap_ratio and complexity_threshold are Python floats.     *)
(* A float argument is written as the ratio [num, den] of the decimal      *)
(* literal it is the nearest double of; the arithmetic the code does on it *)
(* before int() is done in IEEE doubles (section "IEEE double values"),    *)
(* where a product can fall just below a whole number.  A comparison of    *)
(* two such quotients gives the same answer on the doubles as on the       *)
(* ratios, correctly rounded division being monotone.                      *)
(***************************************************************************)
EXTENDS Integers, Sequences, FiniteSets, TLC

(* ------------------------------ bounds ------------------------------- *)
\* largest image width and height, in pixels
MaxDim == 4
\* largest requested tile width and height in fixed-size mode
MaxTile == 4
\* largest tile count per axis in grid mode
MaxGrid == 2
\* largest width and height of an image handed to the resizer
MaxSrcDim == 22
\* largest configured image_max_width and image_max_height
MaxLimit == 15

(* --------------------------- basic values ---------------------------- *)
\* Python None and a present optional argument
None == <<>>
Some(v) == <<v>>

Ratio(n, d) == [num |-> n, den |-> d]
\* a < b for rationals with positive denominators
RatioLess(a, b) == a.num * b.den < b.num * a.den
RatioPositive(a) == a.num > 0

Min(a, b) == IF a < b THEN a ELSE b
Max(a, b) == IF a > b THEN a ELSE b
\* Python int() of the rational n/d (d > 0): truncation toward zero
IntTrunc(n, d) == IF n >= 0 THEN n \div d ELSE -((-n) \div d)
\* Python floor division a // b for b > 0
FloorDiv(a, b) == a \div b

(* ------------------------- IEEE double values ------------------------ *)
\* Python floats are IEEE doubles: every division, product, sum and
\* difference is the real result rounded to 53 significant bits, a tie going
\* to the even neighbour.  A natural number of any size is a sequence of
\* limbs, lowest first; a double is sign * m * 2^e with m such a number.
Limb == 2^14

RECURSIVE Big(_)
Big(n) == IF n = 0 THEN <<>> ELSE <<n % Limb>> \o Big(n \div Limb)

RECURSIVE BigInt(_)
BigInt(b) == IF b = <<>> THEN 0 ELSE b[1] + Limb * BigInt(Tail(b))

RECURSIVE Trim(_)
Trim(b) ==
    IF b = <<>> THEN <<>>
    ELSE IF b[Len(b)] = 0 THEN Trim(SubSeq(b, 1, Len(b) - 1)) ELSE b

\* a + b + carry
RECURSIVE BigAdd(_, _, _)
BigAdd(a, b, carry) ==
    IF a = <<>> /\ b = <<>> THEN (IF carry = 0 THEN <<>> ELSE <<carry>>)
    ELSE LET x == IF a = <<>> THEN 0 ELSE a[1]
             y == IF b = <<>> THEN 0 ELSE b[1]
             t == x + y + carry
         IN  <<t % Limb>> \o BigAdd(IF a = <<>> THEN <<>> ELSE Tail(a),
                                    IF b = <<>> THEN <<>> ELSE Tail(b), t \div Limb)

\* a - b - borrow, for a >= b + borrow (leading zero limbs are left in)
RECURSIVE BigSubRaw(_, _, _)
BigSubRaw(a, b, borrow) ==
    IF a = <<>> THEN <<>>
    ELSE LET y == IF b = <<>> THEN 0 ELSE b[1]
             t == a[1] - y - borrow
         IN  <<t % Limb>> \o BigSubRaw(Tail(a), IF b = <<>> THEN <<>> ELSE Tail(b),
                                       IF t < 0 THEN 1 ELSE 0)
BigSub(a, b) == Trim(BigSubRaw(a, b, 0))

\* a < b, for numbers without leading zero limbs
RECURSIVE BigLessFrom(_, _, _)
BigLessFrom(a, b, i) ==
    IF i = 0 THEN FALSE
    ELSE IF a[i] # b[i] THEN a[i] < b[i]
    ELSE BigLessFrom(a, b, i - 1)
BigLess(a, b) ==
    IF Len(a) # Len(b) THEN Len(a) < Len(b) ELSE BigLessFrom(a, b, Len(a))

\* a * k + carry for a small k
RECURSIVE BigMulSmall(_, _, _)
BigMulSmall(a, k, carry) ==
    IF a = <<>> THEN Big(carry)
    ELSE LET t == a[1] * k + carry
         IN  <<t % Limb>> \o BigMulSmall(Tail(a), k, t \div Limb)

RECURSIVE BigMul(_, _)
BigMul(a, b) ==
    IF a = <<>> \/ b = <<>> THEN <<>>
    ELSE BigAdd(BigMulSmall(a, b[1], 0), <<0>> \o BigMul(a, Tail(b)), 0)

\* quotient and remainder of a by a small d, highest limb first
RECURSIVE BigDivSmallFrom(_, _, _, _)
BigDivSmallFrom(a, d, i, rem) ==
    IF i = 0 THEN [q |-> <<>>, r |-> rem]
    ELSE LET t == rem * Limb + a[i]
             rest == BigDivSmallFrom(a, d, i - 1, t % d)
         IN  [q |-> rest.q \o <<t \div d>>, r |-> rest.r]
TrimQuotient(res) == [q |-> Trim(res.q), r |-> res.r]
BigDivSmall(a, d) == TrimQuotient(BigDivSmallFrom(a, d, Len(a), 0))

\* number of bits of a small number and of a big one
RECURSIVE BitLenSmall(_)
BitLenSmall(n) == IF n = 0 THEN 0 ELSE 1 + BitLenSmall(n \div 2)
BitLen(b) == IF b = <<>> THEN 0 ELSE 14 * (Len(b) - 1) + BitLenSmall(b[Len(b)])

\* a * 2^k
ShiftLeft(a, k) ==
    IF a = <<>> THEN <<>>
    ELSE [i \in 1..(k \div 14) |-> 0] \o BigMulSmall(a, 2^(k % 14), 0)

\* a without its n lowest limbs, and whether one of those is not zero
DropLimbs(a, n) == IF n >= Len(a) THEN <<>> ELSE SubSeq(a, n + 1, Len(a))
LowLimbsNonZero(a, n) == \E i \in 1..Min(n, Len(a)) : a[i] # 0
WithDropped(res, low) == [q |-> res.q, dropped |-> low \/ res.r # 0]
\* floor(a / 2^k), and whether a bit was dropped
ShiftRight(a, k) ==
    WithDropped(BigDivSmall(DropLimbs(a, k \div 14), 2^(k % 14)),
                LowLimbsNonZero(a, k \div 14))

IsOdd(b) == b # <<>> /\ b[1] % 2 = 1

\* q with the bits below it rounded away: up when the first of them (half)
\* is set and either a later one is (more) or q is odd, the tie to even
RoundUp(sign, q, e, half, more) ==
    [sign |-> sign, m |-> IF half /\ (more \/ IsOdd(q)) THEN BigAdd(q, <<1>>, 0) ELSE q,
     e |-> e]
\* g: the 53 bits kept and one more bit
RoundGuard(sign, g, e, sticky) ==
    RoundUp(sign, Trim(ShiftRight(g.q, 1).q), e, IsOdd(g.q), g.dropped \/ sticky)
RoundTo53(sign, m, e, sticky) ==
    IF BitLen(m) <= 53 THEN [sign |-> sign, m |-> m, e |-> e]
    ELSE RoundGuard(sign, ShiftRight(m, BitLen(m) - 54), e + BitLen(m) - 53, sticky)
\* the double nearest to sign * m * 2^e (or to a value just above it in
\* magnitude, when sticky), a tie going to the even neighbour
Double(sign, m, e, sticky) == RoundTo53(sign, Trim(m), e, sticky)

\* float(n) for an int
DFromInt(n) == Double(IF n < 0 THEN -1 ELSE 1, Big(IF n < 0 THEN -n ELSE n), 0, FALSE)

\* n / d for ints n >= 0, d > 0: the quotient of n * 2^84, rounded
DivRounded(res) == Double(1, res.q, -84, res.r # 0)
DDiv(n, d) == DivRounded(BigDivSmall([i \in 1..6 |-> 0] \o Big(n), d))

\* x * y
DMul(x, y) == Double(x.sign * y.sign, BigMul(x.m, y.m), x.e + y.e, FALSE)

\* sa * a * 2^e + sb * b * 2^e
AddAligned(sa, a, sb, b, e) ==
    Double(IF sa = sb \/ ~BigLess(a, b) THEN sa ELSE sb,
           IF sa = sb THEN BigAdd(a, b, 0)
           ELSE IF BigLess(a, b) THEN BigSub(b, a) ELSE BigSub(a, b),
           e, FALSE)
\* x + y
DAdd(x, y) ==
    AddAligned(x.sign, ShiftLeft(x.m, x.e - Min(x.e, y.e)),
               y.sign, ShiftLeft(y.m, y.e - Min(x.e, y.e)), Min(x.e, y.e))

\* x - y
DSub(x, y) == DAdd(x, [y EXCEPT !.sign = -y.sign])

\* int(x): truncation toward zero
DInt(x) ==
    IF x.e >= 0 THEN x.sign * BigInt(ShiftLeft(x.m, x.e))
    ELSE x.sign * BigInt(ShiftRight(x.m, -x.e).q)

\* the double a ratio stands for: num / den correctly rounded, which is also
\* the value of the decimal literal
DRatio(r) == DDiv(r.num, r.den)

RECURSIVE IsPowerOfTwo(_)
IsPowerOfTwo(n) == n = 1 \/ (n > 1 /\ n % 2 = 0 /\ IsPowerOfTwo(n \div 2))

\* int(x) for a double x that the code computes, in a few operations on ints
\* and ratios, for the real value n/d (d > 0).  When n/d is not a whole
\* number the double lies on the same side of every whole number as n/d does
\* (it is within 2^-40 of it and n/d is at least 1/d away), so int(x) is the
\* truncation of n/d; when every operand is a binary fraction (exact) no
\* operation rounds and x is n/d; otherwise x is computed bit for bit.
IntOfDouble(n, d, exact, x) ==
    IF n % d # 0 \/ exact THEN IntTrunc(n, d) ELSE DInt(x)

(* ------------------------------ config ------------------------------- *)
\* A Python str is the sequence of its characters (ASCII).
\* A keyword argument is a Python value tagged with its type.
PyInt(n) == [int |-> n]
PyFloat(r) == [float |-> r]
PyBool(b) == [bool |-> b]
PyStr(s) == [str |-> s]
PyList(items) == [list |-> items]
PyNone == [none |-> TRUE]
IsPy(v, t) == DOMAIN v = {t}

DigitValue ==
    [c \in {"0", "1", "2", "3", "4", "5", "6", "7", "8", "9"} |->
        CASE c = "0" -> 0 [] c = "1" -> 1 [] c = "2" -> 2 [] c = "3" -> 3
          [] c = "4" -> 4 [] c = "5" -> 5 [] c = "6" -> 6 [] c = "7" -> 7
          [] c = "8" -> 8 [] c = "9" -> 9]
UpperCase == << "A", "B", "C", "D", "E", "F", "G", "H", "I", "J", "K", "L", "M",
                "N", "O", "P", "Q", "R", "S", "T", "U", "V", "W", "X", "Y", "Z" >>
LowerCase == << "a", "b", "c", "d", "e", "f", "g", "h", "i", "j", "k", "l", "m",
                "n", "o", "p", "q", "r", "s", "t", "u", "v", "w", "x", "y", "z" >>
\* str.lower()
Lower(s) ==
    [i \in 1..Len(s) |->
        IF \E k \in 1..26 : UpperCase[k] = s[i]
        THEN LowerCase[CHOOSE k \in 1..26 : UpperCase[k] = s[i]]
        ELSE s[i]]

\* the character U+000B (vertical tab), for which a TLA+ string has no
\* escape: it is written as the two characters \v
VerticalTab == "\\v"
\* without the white space at both ends (ASCII: space, \t, \n, U+000B, \f,
\* \r)
WhiteSpace == {" ", "\t", "\n", VerticalTab, "\f", "\r"}
RECURSIVE StripLeft(_)
StripLeft(s) == IF s # <<>> /\ s[1] \in WhiteSpace THEN StripLeft(Tail(s)) ELSE s
RECURSIVE StripRight(_)
StripRight(s) ==
    IF s # <<>> /\ s[Len(s)] \in WhiteSpace THEN StripRight(SubSeq(s, 1, Len(s) - 1)) ELSE s
Strip(s) == StripRight(StripLeft(s))

\* decimal digits: none or more, one or more, and their value
AllDigits(s) == \A i \in 1..Len(s) : s[i] \in DOMAIN DigitValue
IsDigits(s) == Len(s) > 0 /\ AllDigits(s)
RECURSIVE DigitsValue(_)
DigitsValue(s) ==
    IF s = <<>> THEN 0
    ELSE 10 * DigitsValue(SubSeq(s, 1, Len(s) - 1)) + DigitValue[s[Len(s)]]

\* underscores that group digits: none at either end, no two in a row
UnderscoresOK(s) ==
    /\ s # <<>> /\ s[1] # "_" /\ s[Len(s)] # "_"
    /\ \A i \in 1..(Len(s) - 1) : ~(s[i] = "_" /\ s[i + 1] = "_")
IsNotUnderscore(c) == c # "_"
StripUnderscores(s) == IF UnderscoresOK(s) THEN SelectSeq(s, IsNotUnderscore) ELSE s

\* a leading sign and what follows it
HasSign(s) == s # <<>> /\ s[1] \in {"+", "-"}
Unsigned(s) == IF HasSign(s) THEN Tail(s) ELSE s
SignOf(s) == IF s # <<>> /\ s[1] = "-" THEN -1 ELSE 1
\* the part of s before its first c (all of s when there is none), and the
\* part after it
Before(s, c) ==
    IF \E i \in 1..Len(s) : s[i] = c
    THEN SubSeq(s, 1, (CHOOSE i \in 1..Len(s) : s[i] = c /\ \A j \in 1..(i - 1) : s[j] # c) - 1)
    ELSE s
After(s, c) == SubSeq(s, Len(Before(s, c)) + 2, Len(s))
Has(s, c) == \E i \in 1..Len(s) : s[i] = c

\* the digits "1" to "9"
NonZeroDigits == DOMAIN DigitValue \ {"0"}
\* where the number starts once its leading zeros (and the underscores among
\* them) are passed, from position i on: the first other digit or minus
\* sign, the zero before a decimal point, the last character when there is
\* nothing else; 0 when another character comes first
RECURSIVE ZerosEnd(_, _)
ZerosEnd(s, i) ==
    IF i > Len(s) THEN Len(s)
    ELSE IF s[i] \in {"0", "_"} THEN ZerosEnd(s, i + 1)
    ELSE IF s[i] \in NonZeroDigits \cup {"-"} THEN i
    ELSE IF s[i] = "." THEN i - 1
    ELSE 0
\* the same for the whole string, which has to start with a digit
CutZeros(s) ==
    IF s = <<>> THEN 0
    ELSE IF s[1] \in NonZeroDigits THEN 1
    ELSE IF s[1] = "0" THEN ZerosEnd(s, 2)
    ELSE 0
\* without a decimal point followed by zeros, one at least, and nothing else
DropZeroFraction(s) ==
    IF Has(s, ".") /\ After(s, ".") # <<>>
          /\ \A i \in 1..Len(After(s, ".")) : After(s, ".")[i] = "0"
    THEN Before(s, ".")
    ELSE s
\* a literal without its plus sign, which a minus sign must not follow
NoPlus(t) == IF t # <<>> /\ t[1] = "+" THEN Tail(t) ELSE t
PlusOK(t) == ~(Len(t) >= 2 /\ t[1] = "+" /\ t[2] = "-")
\* a minus sign in front, which no other sign must follow, and the rest
IsNegative(p) == p # <<>> /\ p[1] = "-"
MinusOK(p) == ~(Len(p) >= 2 /\ p[1] = "-" /\ p[2] \in {"+", "-"})
Magnitude(p) == IF IsNegative(p) THEN Tail(p) ELSE p
\* what is left of the magnitude to be read as a number: leading zeros, a
\* zero fraction and grouping underscores are dropped, in this order
Cleaned(m) == StripUnderscores(DropZeroFraction(SubSeq(m, CutZeros(m), Len(m))))
\* a whole number as read in the end: digits without a leading zero ("0"
\* itself aside), after a minus sign at most (one that leading zeros came
\* before, as in "0-1"), unless a minus sign was in front already
IsWholeNumber(negative, u) ==
    /\ ~(negative /\ IsNegative(u))
    /\ IsDigits(Magnitude(u))
    /\ Magnitude(u)[1] = "0" => Len(Magnitude(u)) = 1
\* a str an int field accepts, white space aside ("+3.0", "1_000", "0__0",
\* "0-1"; not "3.", "1__0")
IsIntLiteral(t) ==
    /\ PlusOK(t) /\ MinusOK(NoPlus(t))
    /\ CutZeros(Magnitude(NoPlus(t))) > 0
    /\ IsWholeNumber(IsNegative(NoPlus(t)), Cleaned(Magnitude(NoPlus(t))))
IntOfLiteral(t) ==
    (IF IsNegative(NoPlus(t)) \/ IsNegative(Cleaned(Magnitude(NoPlus(t)))) THEN -1 ELSE 1)
        * DigitsValue(Magnitude(Cleaned(Magnitude(NoPlus(t)))))
IsIntString(s) == IsIntLiteral(Strip(s))
IntOfString(s) == IntOfLiteral(Strip(s))

\* the exponent of a float literal: digits with a sign
IsExponent(s) == IsDigits(Unsigned(s))
ExponentValue(s) == SignOf(s) * DigitsValue(Unsigned(s))
\* mantissa and exponent of an unsigned literal
Mantissa(u) == IF Has(u, "e") THEN Before(u, "e") ELSE Before(u, "E")
HasExponent(u) == Has(u, "e") \/ Has(u, "E")
Exponent(u) == IF Has(u, "e") THEN After(u, "e") ELSE After(u, "E")
\* a mantissa: digits with at most one decimal point, one digit at least
IsMantissa(m) ==
    /\ AllDigits(Before(m, ".")) /\ AllDigits(After(m, "."))
    /\ Len(Before(m, ".")) + Len(After(m, ".")) > 0
NotANumber == { << "n", "a", "n" >> }
Infinities == { << "i", "n", "f" >>, << "i", "n", "f", "i", "n", "i", "t", "y" >> }
\* a float literal: a sign, then a mantissa with an optional exponent or one
\* of the spellings of infinity and not-a-number, whatever their case
IsFloatLiteral(t) ==
    \/ Lower(Unsigned(t)) \in NotANumber \cup Infinities
    \/ /\ IsMantissa(Mantissa(Unsigned(t)))
       /\ HasExponent(Unsigned(t)) => IsExponent(Exponent(Unsigned(t)))

RECURSIVE GCD(_, _)
GCD(a, b) == IF b = 0 THEN a ELSE GCD(b, a % b)
\* the ratio num / den in lowest terms, den > 0
Reduced(num, den) ==
    Ratio(num \div GCD(IF num < 0 THEN -num ELSE num, den),
          den \div GCD(IF num < 0 THEN -num ELSE num, den))
\* sign * digits / 10^places * 10^exponent
Scaled(sign, digits, places, exponent) ==
    IF exponent >= places
    THEN Ratio(sign * digits * 10 ^ (exponent - places), 1)
    ELSE Reduced(sign * digits, 10 ^ (places - exponent))
\* the value of a float literal; infinity and not-a-number have den = 0
FloatOfMantissa(sign, m, exponent) ==
    Scaled(sign, DigitsValue(Before(m, ".") \o After(m, ".")), Len(After(m, ".")), exponent)
FloatOfLiteral(t) ==
    IF Lower(Unsigned(t)) \in NotANumber THEN Ratio(0, 0)
    ELSE IF Lower(Unsigned(t)) \in Infinities THEN Ratio(SignOf(t), 0)
    ELSE FloatOfMantissa(SignOf(t), Mantissa(Unsigned(t)),
                         IF HasExponent(Unsigned(t)) THEN ExponentValue(Exponent(Unsigned(t)))
                         ELSE 0)
\* a str a float field accepts: a float literal, white space aside, or one
\* with grouping underscores and no white space
IsFloatString(s) ==
    IsFloatLiteral(Strip(s)) \/ IsFloatLiteral(StripUnderscores(s))
FloatOfString(s) ==
    IF IsFloatLiteral(Strip(s)) THEN FloatOfLiteral(Strip(s))
    ELSE FloatOfLiteral(StripUnderscores(s))
\* the strings a bool field accepts, whatever their case
TrueStrings ==
    { << "1" >>, << "o", "n" >>, << "t" >>, << "t", "r", "u", "e" >>, << "y" >>,
      << "y", "e", "s" >> }
FalseStrings ==
    { << "0" >>, << "o", "f", "f" >>, << "f" >>, << "f", "a", "l", "s", "e" >>,
      << "n" >>, << "n", "o" >> }

\* the declared type of each field of AppConfig
FieldType ==
    [ databricks_host |-> "Optional[str]",
      databricks_token |-> "Optional[str]",
      databricks_client_id |-> "Optional[str]",
      databricks_client_secret |-> "Optional[str]",
      databricks_workspace_id |-> "Optional[str]",
      databricks_account_id |-> "Optional[str]",
      databricks_config_profile |-> "Optional[str]",
      databricks_catalog |-> "Optional[str]",
      databricks_schema |-> "Optional[str]",
      databricks_volume |-> "Optional[str]",
      app_env |-> "str",
      log_level |-> "str",
      allowed_image_extensions |-> "list[str]",
      allowed_pdf_extensions |-> "list[str]",
      image_dpi |-> "int",
      image_max_width |-> "int",
      image_max_height |-> "int",
      fragment_tile_width |-> "int",
      fragment_tile_height |-> "int",
      fragment_overlap_ratio |-> "float",
      fragment_complexity_threshold |-> "float",
      fragment_dynamic_enabled |-> "bool" ]

IsWhole(r) == r.den # 0 /\ r.num % r.den = 0

\* the validation of one value against a declared type: a value of the type
\* passes, and so does a value of another type that converts without loss
\* (a whole float or a str that reads as a whole number for an int, a str
\* that reads as a float for a float, 0 and 1 for a bool, ...); a str field
\* takes nothing but a str
TypeAccepts(type, v) ==
    CASE type = "int" ->
            \/ IsPy(v, "int") \/ IsPy(v, "bool")
            \/ (IsPy(v, "float") /\ IsWhole(v.float))
            \/ (IsPy(v, "str") /\ IsIntString(v.str))
      [] type = "float" ->
            \/ IsPy(v, "float") \/ IsPy(v, "int") \/ IsPy(v, "bool")
            \/ (IsPy(v, "str") /\ IsFloatString(v.str))
      [] type = "bool" ->
            \/ IsPy(v, "bool")
            \/ (IsPy(v, "int") /\ v.int \in {0, 1})
            \/ (IsPy(v, "float") /\ v.float.den # 0
                    /\ (v.float.num = 0 \/ v.float.num = v.float.den))
            \/ (IsPy(v, "str") /\ Lower(v.str) \in TrueStrings \cup FalseStrings)
      [] type = "str" -> IsPy(v, "str")
      [] type = "Optional[str]" -> IsPy(v, "none") \/ IsPy(v, "str")
      [] type = "list[str]" ->
            IsPy(v, "list") /\ \A i \in 1..Len(v.list) : IsPy(v.list[i], "str")

\* the value a field holds after validation
TypeConvert(type, v) ==
    CASE type = "int" ->
            IF IsPy(v, "int") THEN v.int
            ELSE IF IsPy(v, "bool") THEN (IF v.bool THEN 1 ELSE 0)
            ELSE IF IsPy(v, "float") THEN v.float.num \div v.float.den
            ELSE IntOfString(v.str)
      [] type = "float" ->
            IF IsPy(v, "float") THEN v.float
            ELSE IF IsPy(v, "int") THEN Ratio(v.int, 1)
            ELSE IF IsPy(v, "bool") THEN Ratio(IF v.bool THEN 1 ELSE 0, 1)
            ELSE FloatOfString(v.str)
      [] type = "bool" ->
            IF IsPy(v, "bool") THEN v.bool
            ELSE IF IsPy(v, "int") THEN v.int = 1
            ELSE IF IsPy(v, "float") THEN v.float.num # 0
            ELSE Lower(v.str) \in TrueStrings
      [] type = "str" -> v.str
      [] type = "Optional[str]" -> IF IsPy(v, "none") THEN None ELSE Some(v.str)
      [] type = "list[str]" -> [i \in 1..Len(v.list) |-> v.list[i].str]

\* the fields AppConfig declares, with their defaults (an Optional[str] field
\* is None or Some(string))
AppConfig ==
    [ databricks_host |-> None,
      databricks_token |-> None,
      databricks_client_id |-> None,
      databricks_client_secret |-> None,
      databricks_workspace_id |-> None,
      databricks_account_id |-> None,
      databricks_config_profile |-> None,
      databricks_catalog |-> None,
      databricks_schema |-> None,
      databricks_volume |-> None,
      app_env |-> << "l", "o", "c", "a", "l" >>,
      log_level |-> << "D", "E", "B", "U", "G" >>,
      allowed_image_extensions |-> << << ".", "j", "p", "g" >>,
                                      << ".", "j", "p", "e", "g" >>,
                                      << ".", "p", "n", "g" >> >>,
      allowed_pdf_extensions |-> << << ".", "p", "d", "f" >> >>,
      image_dpi |-> 300,
      image_max_width |-> 2048,
      image_max_height |-> 2048,
      fragment_tile_width |-> 1024,
      fragment_tile_height |-> 1024,
      fragment_overlap_ratio |-> Ratio(1, 10),
      fragment_complexity_threshold |-> Ratio(3, 100),
      fragment_dynamic_enabled |-> FALSE ]

\* set_config_for_test(**kwargs): AppConfig(**kwargs).  The settings class
\* forbids fields it does not declare and validates every value against the
\* type of its field (ValidationError, nothing is replaced); a value that
\* passes is stored converted to that type, and the fields not named keep
\* their defaults.
ConfigAccepts(kwargs) ==
    /\ DOMAIN kwargs \subseteq DOMAIN AppConfig
    /\ \A f \in DOMAIN kwargs : TypeAccepts(FieldType[f], kwargs[f])
set_config_for_test(kwargs) ==
    [f \in DOMAIN AppConfig |->
        IF f \in DOMAIN kwargs THEN TypeConvert(FieldType[f], kwargs[f]) ELSE AppConfig[f]]

\* attribute access on the settings object: a field AppConfig does not
\* declare raises AttributeError
HasAttr(cfg, name) == name \in DOMAIN cfg

(* ------------------------------ images ------------------------------- *)
\* the luminance below which a pixel counts as drawn content
NearWhite == 240
White == <<255, 255, 255>>
Black == <<0, 0, 0>>
InkColours == {Black}

\* cv2.cvtColor(..., COLOR_BGR2GRAY) on 8-bit pixels (fixed point, 15 bits)
BGR2GRAY(p) == (p[1] * 3735 + p[2] * 19235 + p[3] * 9798 + 16384) \div 32768

\* A decoded page image: white paper with one rectangle of ink that reaches
\* the bottom-right corner, columns inkX.. and rows inkY.. (inkX = width and
\* inkY = height: a blank page).
Images ==
    { [width |-> w, height |-> h, inkX |-> ix, inkY |-> iy, ink |-> c] :
        w \in 1..MaxDim, h \in 1..MaxDim, ix \in 0..MaxDim, iy \in 0..MaxDim,
        c \in InkColours }

ImageOK(img) ==
    /\ img.inkX <= img.width
    /\ img.inkY <= img.height
    /\ (img.inkX = img.width) <=> (img.inkY = img.height)
    /\ (img.inkX = img.width) => img.ink = Black

Pixel(img, x, y) == IF x >= img.inkX /\ y >= img.inkY THEN img.ink ELSE White

\* page.content: the bytes of an encoded image, or bytes that are no image
Contents ==
    { [valid |-> TRUE, image |-> img] : img \in {i \in Images : ImageOK(i)} }
    \cup { [valid |-> FALSE, image |-> [width |-> 0, height |-> 0, inkX |-> 0,
                                         inkY |-> 0, ink |-> Black]] }

\* cv2.imdecode: the image, or None for bytes that are no image
imdecode(content) == IF content.valid THEN Some(content.image) ELSE None

\* numpy slice image[y1:y2, x1:x2] of an image
Slice(img, x1, y1, x2, y2) ==
    [image |-> img, x1 |-> x1, y1 |-> y1, x2 |-> x2, y2 |-> y2]
TileWidth(t) == Max(0, t.x2 - t.x1)
TileHeight(t) == Max(0, t.y2 - t.y1)
\* ndarray.size of a 3-channel slice
TileSize(t) == TileHeight(t) * TileWidth(t) * 3
TilePixels(t) == (t.x1 .. (t.x2 - 1)) \X (t.y1 .. (t.y2 - 1))

(* ---------------------------- complexity ----------------------------- *)
\* image is None
IsNone(t) == DOMAIN t = {}

\* the same with a pixel of luminance exactly 240 counted as content
_calculate_complexity_Inclusive(t) ==
    IF IsNone(t) \/ TileSize(t) = 0
    THEN Ratio(0, 1)
    ELSE LET non_white_pixels ==
                 Cardinality({p \in TilePixels(t) :
                                 BGR2GRAY(Pixel(t.image, p[1], p[2])) <= NearWhite})
             total_pixels == TileHeight(t) * TileWidth(t)
         IN  Ratio(non_white_pixels, total_pixels)

\* Fragmenter._calculate_complexity: the share of pixels whose luminance is
\* below the near-white threshold, 0 for a missing or empty region
_calculate_complexity(t) ==
    IF IsNone(t) \/ TileSize(t) = 0
    THEN Ratio(0, 1)
    ELSE LET non_white_pixels ==
                 Cardinality({p \in TilePixels(t) :
                                 BGR2GRAY(Pixel(t.image, p[1], p[2])) < NearWhite})
             total_pixels == TileHeight(t) * TileWidth(t)
         IN  Ratio(non_white_pixels, total_pixels)

(* ----------------------------- encoding ------------------------------ *)
\* the largest width or height the JPEG encoder accepts
JpegMaxDim == 65500
\* How the OpenCV build in use reports an image its encoder refuses: by
\* returning a false success flag, or by raising cv2.error.  Both occur among
\* OpenCV builds; the code runs on whichever is installed.
EncoderModes == {"flag", "raises"}
VARIABLE encoder
\* cv2.imencode(".jpg", tile): whether the call raises, the success flag and
\* the encoded bytes, which stand here for what they decode to (shape and
\* drawn content)
imencode(t) ==
    [raises  |-> encoder = "raises"
                   /\ ~(TileWidth(t) <= JpegMaxDim /\ TileHeight(t) <= JpegMaxDim),
     success |-> TileWidth(t) <= JpegMaxDim /\ TileHeight(t) <= JpegMaxDim,
     bytes   |-> [format |-> "jpg", width |-> TileWidth(t), height |-> TileHeight(t),
                  drawn |-> _calculate_complexity(t).num]]

PageFragment(content, bbox) == [content |-> content, bbox |-> bbox]

(* ------------------------ outcomes of a call ------------------------- *)
NotCalled == [kind |-> "none", exc |-> "", value |-> <<>>]
Returned(v) == [kind |-> "returned", exc |-> "", value |-> v]
Raised(e) == [kind |-> "raised", exc |-> e, value |-> <<>>]

(* ----------------------------- grid mode ----------------------------- *)
\* GridBBox that rounds the far edges up instead of truncating them
CeilDiv(n, d) == -((-n) \div d)
GridBBox_Ceil(width, height, H, V, ov, row, col) ==
    LET x1 == Max(0, IntTrunc(col * width * ov.den - width * ov.num, H * ov.den))
        y1 == Max(0, IntTrunc(row * height * ov.den - height * ov.num, V * ov.den))
        x2 == Min(width, CeilDiv((col + 1) * width * ov.den + width * ov.num, H * ov.den))
        y2 == Min(height, CeilDiv((row + 1) * height * ov.den + height * ov.num, V * ov.den))
    IN  << x1, y1,
           IF col = H - 1 THEN width ELSE x2,
           IF row = V - 1 THEN height ELSE y2 >>

\* GridBBox with the overlap taken off the cell instead of added to it
GridBBox_Inward(width, height, H, V, ov, row, col) ==
    LET x1 == Max(0, IntTrunc(col * width * ov.den + width * ov.num, H * ov.den))
        y1 == Max(0, IntTrunc(row * height * ov.den + height * ov.num, V * ov.den))
        x2 == Min(width, IntTrunc((col + 1) * width * ov.den - width * ov.num, H * ov.den))
        y2 == Min(height, IntTrunc((row + 1) * height * ov.den - height * ov.num, V * ov.den))
    IN  << x1, y1,
           IF col = H - 1 THEN width ELSE x2,
           IF row = V - 1 THEN height ELSE y2 >>

\* k * base - base * overlap_ratio and k * base + base * overlap_ratio,
\* the overlap being the product overlap_width = base * overlap_ratio
BelowBy(base, overlap_ratio, k) == DSub(DMul(DFromInt(k), base), DMul(base, overlap_ratio))
AboveBy(base, overlap_ratio, k) == DAdd(DMul(DFromInt(k), base), DMul(base, overlap_ratio))
\* int(k * base - overlap) and int(k * base + overlap) for base = size / count
GridLow(size, count, ov, k) ==
    IntOfDouble(k * size * ov.den - size * ov.num, count * ov.den,
                IsPowerOfTwo(count) /\ IsPowerOfTwo(ov.den),
                BelowBy(DDiv(size, count), DRatio(ov), k))
GridHigh(size, count, ov, k) ==
    IntOfDouble(k * size * ov.den + size * ov.num, count * ov.den,
                IsPowerOfTwo(count) /\ IsPowerOfTwo(ov.den),
                AboveBy(DDiv(size, count), DRatio(ov), k))

\* candidate bounds of cell (row, col); base_tile_width = width / H and
\* overlap_width = base_tile_width * overlap_ratio are doubles, int()
\* truncates
GridBBox(width, height, H, V, ov, row, col) ==
    LET x1 == Max(0, GridLow(width, H, ov, col))
        y1 == Max(0, GridLow(height, V, ov, row))
        x2 == Min(width, GridHigh(width, H, ov, col + 1))
        y2 == Min(height, GridHigh(height, V, ov, row + 1))
    IN  << x1, y1,
           IF col = H - 1 THEN width ELSE x2,
           IF row = V - 1 THEN height ELSE y2 >>

\* GridKeeps without the "skip empty tiles" test
GridKeeps_EmptyKept(image, bbox, complexity_threshold) ==
    LET tile == Slice(image, bbox[1], bbox[2], bbox[3], bbox[4])
    IN  /\ ~ ( RatioPositive(complexity_threshold)
               /\ RatioLess(_calculate_complexity(tile), complexity_threshold) )
        /\ imencode(tile).success

\* whether the loop body appends a fragment for the tile with these bounds
GridKeeps(image, bbox, complexity_threshold) ==
    LET tile == Slice(image, bbox[1], bbox[2], bbox[3], bbox[4])
    IN  /\ TileSize(tile) # 0
        /\ ~ ( RatioPositive(complexity_threshold)
               /\ RatioLess(_calculate_complexity(tile), complexity_threshold) )
        /\ imencode(tile).success

\* whether the loop body reaches cv2.imencode for the tile with these bounds
\* and the call raises
GridEncodeRaises(image, bbox, complexity_threshold) ==
    LET tile == Slice(image, bbox[1], bbox[2], bbox[3], bbox[4])
    IN  /\ TileSize(tile) # 0
        /\ ~ ( RatioPositive(complexity_threshold)
               /\ RatioLess(_calculate_complexity(tile), complexity_threshold) )
        /\ imencode(tile).raises

MakeFragment(image, bbox) ==
    PageFragment(imencode(Slice(image, bbox[1], bbox[2], bbox[3], bbox[4])).bytes, bbox)

\* _create_grid_tiles whose row loop runs over the column count
_create_grid_tiles_SquareLoop(image, width, height, H, V, ov, thr) ==
    IF H = 0 \/ V = 0
    THEN Raised("ZeroDivisionError")
    ELSE LET cells == [k \in 1..(H * H) |->
                         GridBBox(width, height, H, V, ov, (k - 1) \div H, (k - 1) % H)]
             kept  == SelectSeq(cells, LAMBDA b : GridKeeps(image, b, thr))
         IN  IF \E k \in 1..Len(cells) : GridEncodeRaises(image, cells[k], thr)
             THEN Raised("cv2.error")
             ELSE Returned([i \in 1..Len(kept) |-> MakeFragment(image, kept[i])])

\* Fragmenter._create_grid_tiles: rows outer, columns inner
_create_grid_tiles(image, width, height, H, V, ov, thr) ==
    IF H = 0 \/ V = 0
    THEN Raised("ZeroDivisionError")
    ELSE LET cells == [k \in 1..(H * V) |->
                         GridBBox(width, height, H, V, ov, (k - 1) \div H, (k - 1) % H)]
             kept  == SelectSeq(cells, LAMBDA b : GridKeeps(image, b, thr))
         IN  IF \E k \in 1..Len(cells) : GridEncodeRaises(image, cells[k], thr)
             THEN Raised("cv2.error")
             ELSE Returned([i \in 1..Len(kept) |-> MakeFragment(image, kept[i])])

(* -------------------------- fixed-size mode -------------------------- *)
\* step = int(tile * (1 - overlap_ratio))
Step(tile, ov) ==
    IntOfDouble(tile * (ov.den - ov.num), ov.den, IsPowerOfTwo(ov.den),
                DMul(DFromInt(tile), DSub(DFromInt(1), DRatio(ov))))
\* len(range(0, n, step)) for step > 0
RangeLen(n, step) == (n + step - 1) \div step

FixedBBox(width, height, tile_width, tile_height, x, y) ==
    << x, y, Min(x + tile_width, width), Min(y + tile_height, height) >>

\* FixedKeeps that drops a tile whose score equals the threshold
FixedKeeps_DropEqual(image, bbox, tile_width, tile_height, complexity_threshold) ==
    LET tile == Slice(image, bbox[1], bbox[2], bbox[3], bbox[4])
    IN  /\ ~ ( RatioPositive(complexity_threshold)
               /\ ( bbox[3] - bbox[1] < FloorDiv(tile_width, 2)
                    \/ bbox[4] - bbox[2] < FloorDiv(tile_height, 2) ) )
        /\ ~ ( RatioPositive(complexity_threshold)
               /\ ~RatioLess(complexity_threshold, _calculate_complexity(tile)) )
        /\ imencode(tile).success

\* FixedKeeps that compares the clipped size with the exact half tile size
FixedKeeps_ExactHalf(image, bbox, tile_width, tile_height, complexity_threshold) ==
    LET tile == Slice(image, bbox[1], bbox[2], bbox[3], bbox[4])
    IN  /\ ~ ( RatioPositive(complexity_threshold)
               /\ ( 2 * (bbox[3] - bbox[1]) < tile_width
                    \/ 2 * (bbox[4] - bbox[2]) < tile_height ) )
        /\ ~ ( RatioPositive(complexity_threshold)
               /\ RatioLess(_calculate_complexity(tile), complexity_threshold) )
        /\ imencode(tile).success

\* FixedKeeps that skips undersized tiles only when the threshold is 0
FixedKeeps_SkipWhenOff(image, bbox, tile_width, tile_height, complexity_threshold) ==
    LET tile == Slice(image, bbox[1], bbox[2], bbox[3], bbox[4])
    IN  /\ ~ ( ~RatioPositive(complexity_threshold)
               /\ ( bbox[3] - bbox[1] < FloorDiv(tile_width, 2)
                    \/ bbox[4] - bbox[2] < FloorDiv(tile_height, 2) ) )
        /\ ~ ( RatioPositive(complexity_threshold)
               /\ RatioLess(_calculate_complexity(tile), complexity_threshold) )
        /\ imencode(tile).success

\* FixedKeeps whose filter drops the tiles that score above the threshold
FixedKeeps_DropsBusy(image, bbox, tile_width, tile_height, complexity_threshold) ==
    LET tile == Slice(image, bbox[1], bbox[2], bbox[3], bbox[4])
    IN  /\ ~ ( RatioPositive(complexity_threshold)
               /\ ( bbox[3] - bbox[1] < FloorDiv(tile_width, 2)
                    \/ bbox[4] - bbox[2] < FloorDiv(tile_height, 2) ) )
        /\ ~ ( RatioPositive(complexity_threshold)
               /\ RatioLess(complexity_threshold, _calculate_complexity(tile)) )
        /\ imencode(tile).success

FixedKeeps(image, bbox, tile_width, tile_height, complexity_threshold) ==
    LET tile == Slice(image, bbox[1], bbox[2], bbox[3], bbox[4])
    IN  /\ ~ ( RatioPositive(complexity_threshold)
               /\ ( bbox[3] - bbox[1] < FloorDiv(tile_width, 2)
                    \/ bbox[4] - bbox[2] < FloorDiv(tile_height, 2) ) )
        /\ ~ ( RatioPositive(complexity_threshold)
               /\ RatioLess(_calculate_complexity(tile), complexity_threshold) )
        /\ imencode(tile).success

\* whether the loop body reaches cv2.imencode for the tile with these bounds
\* and the call raises
FixedEncodeRaises(image, bbox, tile_width, tile_height, complexity_threshold) ==
    LET tile == Slice(image, bbox[1], bbox[2], bbox[3], bbox[4])
    IN  /\ ~ ( RatioPositive(complexity_threshold)
               /\ ( bbox[3] - bbox[1] < FloorDiv(tile_width, 2)
                    \/ bbox[4] - bbox[2] < FloorDiv(tile_height, 2) ) )
        /\ ~ ( RatioPositive(complexity_threshold)
               /\ RatioLess(_calculate_complexity(tile), complexity_threshold) )
        /\ imencode(tile).raises

\* _create_fixed_size_tiles with the x loop outside the y loop
_create_fixed_size_tiles_ColumnMajor(image, width, height, tile_width, tile_height, ov, thr) ==
    LET step_width == Step(tile_width, ov)
        step_height == Step(tile_height, ov)
    IN  IF step_height = 0 \/ step_width = 0
        THEN Raised("ValueError")
        ELSE LET nx == RangeLen(width, step_width)
                 ny == RangeLen(height, step_height)
                 cells == [k \in 1..(nx * ny) |->
                             FixedBBox(width, height, tile_width, tile_height,
                                       ((k - 1) \div ny) * step_width,
                                       ((k - 1) % ny) * step_height)]
                 kept == SelectSeq(cells,
                            LAMBDA b : FixedKeeps(image, b, tile_width, tile_height, thr))
             IN  IF \E k \in 1..Len(cells) :
                        FixedEncodeRaises(image, cells[k], tile_width, tile_height, thr)
                 THEN Raised("cv2.error")
                 ELSE Returned([i \in 1..Len(kept) |-> MakeFragment(image, kept[i])])

\* Fragmenter._create_fixed_size_tiles: rows outer, columns
\* inner; range() refuses a step of 0
_create_fixed_size_tiles(image, width, height, tile_width, tile_height, ov, thr) ==
    LET step_width == Step(tile_width, ov)
        step_height == Step(tile_height, ov)
    IN  IF step_height = 0 \/ step_width = 0
        THEN Raised("ValueError")
        ELSE LET nx == RangeLen(width, step_width)
                 ny == RangeLen(height, step_height)
                 cells == [k \in 1..(nx * ny) |->
                             FixedBBox(width, height, tile_width, tile_height,
                                       ((k - 1) % nx) * step_width,
                                       ((k - 1) \div nx) * step_height)]
                 kept == SelectSeq(cells,
                            LAMBDA b : FixedKeeps(image, b, tile_width, tile_height, thr))
             IN  IF \E k \in 1..Len(cells) :
                        FixedEncodeRaises(image, cells[k], tile_width, tile_height, thr)
                 THEN Raised("cv2.error")
                 ELSE Returned([i \in 1..Len(kept) |-> MakeFragment(image, kept[i])])

(* ----------------------------- tile_page ----------------------------- *)
\* the optional arguments of a call; each is None or Some(value)
Arg(tile_size, overlap_ratio, complexity_threshold, nh, nv) ==
    [ tile_size |-> tile_size,
      overlap_ratio |-> overlap_ratio,
      complexity_threshold |-> complexity_threshold,
      num_tiles_horizontal |-> nh,
      num_tiles_vertical |-> nv ]

\* argument, or the configured default when the argument is None
OrConfig(arg, cfg, name) == IF arg = None THEN cfg[name] ELSE arg[1]

\* the tiling once the page image is decoded
TileImage(image, a, cfg) ==
    LET overlap_ratio == OrConfig(a.overlap_ratio, cfg, "fragment_overlap_ratio")
        complexity_threshold ==
            OrConfig(a.complexity_threshold, cfg, "fragment_complexity_threshold")
    IN  IF a.tile_size = None
        THEN _create_grid_tiles(image, image.width, image.height,
                 OrConfig(a.num_tiles_horizontal, cfg, "fragment_num_tiles_horizontal"),
                 OrConfig(a.num_tiles_vertical, cfg, "fragment_num_tiles_vertical"),
                 overlap_ratio, complexity_threshold)
        ELSE _create_fixed_size_tiles(image, image.width, image.height,
                 a.tile_size[1][1], a.tile_size[1][2],
                 overlap_ratio, complexity_threshold)

\* Fragmenter.tile_page(page, tile_size, overlap_ratio, complexity_threshold,
\* num_tiles_horizontal, num_tiles_vertical): the defaults are read from the
\* configuration first, then the page is decoded, then it is tiled
tile_page(page_content, a, cfg) ==
    IF a.num_tiles_horizontal = None /\ ~HasAttr(cfg, "fragment_num_tiles_horizontal")
    THEN Raised("AttributeError")
    ELSE IF a.num_tiles_vertical = None /\ ~HasAttr(cfg, "fragment_num_tiles_vertical")
    THEN Raised("AttributeError")
    ELSE IF imdecode(page_content) = None
    THEN Returned(<<>>)
    ELSE TileImage(imdecode(page_content)[1], a, cfg)

(* ------------------------------ inputs ------------------------------- *)
Overlaps == {Ratio(0, 1), Ratio(1, 4), Ratio(1, 2)}
Thresholds == {Ratio(0, 1), Ratio(1, 2), Ratio(1, 1)}
Opt(S) == {None} \cup {Some(v) : v \in S}
TileSizes == (1..MaxTile) \X (1..MaxTile)

\* calls in grid mode (with three columns as well, more than a two-pixel
\* image is wide), and calls in fixed-size mode (which ignores the tile
\* counts, so they are drawn from None and 1 only)
GridArgs ==
    { Arg(None, o, t, nh, nv) :
        o \in Opt(Overlaps), t \in Opt(Thresholds),
        nh \in Opt((1..MaxGrid) \cup {3}), nv \in Opt(1..MaxGrid) }
FixedArgs ==
    { Arg(Some(ts), o, t, nh, nv) :
        ts \in TileSizes, o \in Opt(Overlaps), t \in Opt(Thresholds),
        nh \in Opt({1}), nv \in Opt({1}) }

(* ------------------------------- state ------------------------------- *)
VARIABLES
    content,    \* page.content
    config,     \* the process-wide settings object
    args,       \* the arguments the caller passes
    fragments,  \* page.fragments
    last,       \* the operation called last
    ret,        \* its outcome
    pages,      \* document.pages, when several pages are worked on
    workers,    \* the callers at work, and where each is in its call
    store       \* a VolumeFileStore: its client, and the local files

vars == << content, config, args, fragments, last, ret, pages, workers, store, encoder >>

\* no document, no volume
others == << pages, workers, store, encoder >>
\* no document, no caller at work, no store; the page images are far below the
\* encoder's limit, so that no tile is refused and the build's way of
\* reporting a refusal plays no part
NoOthers == pages = <<>> /\ workers = <<>> /\ store = None /\ encoder = "flag"

\* Page.__init__ with some content (fragments empty), the settings as loaded,
\* a caller about to call with some arguments
Init ==
    /\ content \in Contents
    /\ config = AppConfig
    /\ args \in GridArgs \cup FixedArgs
    /\ fragments = <<>>
    /\ last = "none"
    /\ ret = NotCalled
    /\ NoOthers

\* Fragmenter.tile_page(page, **args)
TilePage ==
    /\ ret' = tile_page(content, args, config)
    /\ last' = "tile_page"
    /\ UNCHANGED << content, config, args, fragments >>
    /\ UNCHANGED others

\* Page.fragment(tile_size, overlap_ratio, complexity_threshold): the tile
\* counts are not passed on, the result is stored in self.fragments when
\* tile_page returns
Page_fragment(page_content, tile_size, overlap_ratio, complexity_threshold, cfg) ==
    tile_page(page_content,
              Arg(tile_size, overlap_ratio, complexity_threshold, None, None), cfg)

PageFragmentCall ==
    LET r == Page_fragment(content, args.tile_size, args.overlap_ratio,
                           args.complexity_threshold, config)
    IN  /\ ret' = r
        /\ fragments' = IF r.kind = "returned" THEN r.value ELSE fragments
        /\ last' = "Page.fragment"
        /\ UNCHANGED << content, config, args >>
        /\ UNCHANGED others

Next == TilePage \/ PageFragmentCall

Spec == Init /\ [][Next]_vars

(* ===================== properties of tile_page ======================= *)
\* the values the call works with
pageImage == content.image
EffOverlap == OrConfig(args.overlap_ratio, config, "fragment_overlap_ratio")
EffThreshold == OrConfig(args.complexity_threshold, config, "fragment_complexity_threshold")
GridMode == args.tile_size = None
FixedMode == args.tile_size # None
CountsGiven == args.num_tiles_horizontal # None /\ args.num_tiles_vertical # None
NumH == args.num_tiles_horizontal[1]
NumV == args.num_tiles_vertical[1]
ReqWidth == args.tile_size[1][1]
ReqHeight == args.tile_size[1][2]
\* tile_page was called directly, and it returned
Called == last = "tile_page"
DidReturn == last = "tile_page" /\ ret.kind = "returned"
BBoxes(v) == {v[i].bbox : i \in 1..Len(v)}
ScoreOf(b) == _calculate_complexity(Slice(pageImage, b[1], b[2], b[3], b[4]))
FilteredOut(b) == RatioPositive(EffThreshold) /\ RatioLess(ScoreOf(b), EffThreshold)

\* the candidate tiles of the two modes
GridCells ==
    { GridBBox(pageImage.width, pageImage.height, NumH, NumV, EffOverlap, row, col) :
        row \in 0..(NumV - 1), col \in 0..(NumH - 1) }
FixedCells ==
    { FixedBBox(pageImage.width, pageImage.height, ReqWidth, ReqHeight, x, y) :
        x \in {i * Step(ReqWidth, EffOverlap) : i \in 0..(pageImage.width - 1)} \cap 0..(pageImage.width - 1),
        y \in {j * Step(ReqHeight, EffOverlap) : j \in 0..(pageImage.height - 1)} \cap 0..(pageImage.height - 1) }

InBBox(b, x, y) == b[1] <= x /\ x < b[3] /\ b[2] <= y /\ y < b[4]
Covers(v) ==
    \A x \in 0..(pageImage.width - 1), y \in 0..(pageImage.height - 1) :
        \E b \in BBoxes(v) : InBBox(b, x, y)
Disjoint(v) ==
    \A i, j \in 1..Len(v) :
        i # j => ( v[i].bbox[3] <= v[j].bbox[1] \/ v[j].bbox[3] <= v[i].bbox[1]
                   \/ v[i].bbox[4] <= v[j].bbox[2] \/ v[j].bbox[4] <= v[i].bbox[2] )

\* C1: every fragment tile_page returns has a non-empty bbox inside the image,
\* 0 <= x1 < x2 <= width and 0 <= y1 < y2 <= height, in both modes.
C1_BBoxInsideImage ==
    DidReturn =>
        \A b \in BBoxes(ret.value) :
            /\ 0 <= b[1] /\ b[1] < b[3] /\ b[3] <= pageImage.width
            /\ 0 <= b[2] /\ b[2] < b[4] /\ b[4] <= pageImage.height

\* a grid finer than the image: an empty cell was left out, the rest returned
C1_Witness ==
    /\ DidReturn /\ GridMode /\ content.valid
    /\ NumH > pageImage.width
    /\ Len(ret.value) > 0
    /\ \E b \in GridCells : b[1] >= b[3]

\* C2 as stated: grid mode with threshold 0 returns exactly H x V fragments for
\* every image.
C2_AlwaysHxV ==
    (DidReturn /\ content.valid /\ GridMode /\ ~RatioPositive(EffThreshold))
        => Len(ret.value) = NumH * NumV

\* C2 amended: grid mode with threshold 0 returns one fragment for each of
\* the H x V cells whose bounds are not empty, and so exactly H x V fragments
\* whenever the image is at least H pixels wide and V pixels high.
C2_FragmentPerNonEmptyCell ==
    (DidReturn /\ content.valid /\ GridMode /\ ~RatioPositive(EffThreshold)) =>
        /\ Len(ret.value) =
              Cardinality({ rc \in (0..(NumV - 1)) \X (0..(NumH - 1)) :
                  LET b == GridBBox(pageImage.width, pageImage.height, NumH, NumV,
                                    EffOverlap, rc[1], rc[2])
                  IN  b[1] < b[3] /\ b[2] < b[4] })
        /\ (pageImage.width >= NumH /\ pageImage.height >= NumV)
              => Len(ret.value) = NumH * NumV

\* an image whose size the grid does not divide, tiled with overlap into 2 x 2
C2_Witness ==
    /\ DidReturn /\ content.valid /\ GridMode /\ ~RatioPositive(EffThreshold)
    /\ RatioPositive(EffOverlap)
    /\ NumH = 2 /\ NumV = 2 /\ pageImage.width = 3 /\ pageImage.height = 3
    /\ Len(ret.value) = 4

\* C3 as stated: with threshold 0 the returned fragments cover every pixel of
\* the image, in both modes and for every overlap ratio (stated for calls that
\* pass both tile counts, so that no configuration lookup is involved).
C3_FullCoverage ==
    (Called /\ content.valid /\ CountsGiven /\ ~RatioPositive(EffThreshold))
        => (DidReturn /\ Covers(ret.value))

\* C4 as stated: a page whose content is no image gives an empty list and no
\* exception, whatever the arguments.
C4_UndecodableGivesEmptyList ==
    (Called /\ ~content.valid) => ret = Returned(<<>>)

\* C5: a candidate tile is left out by the complexity filter exactly when the
\* threshold is positive and the tile's score is strictly below it (equal
\* scores are kept, threshold 0 keeps every tile).
C5_FilterExactlyBelowThreshold ==
    /\ (DidReturn /\ content.valid /\ GridMode) =>
          \A b \in {c \in GridCells : c[1] < c[3] /\ c[2] < c[4]} :
              (b \notin BBoxes(ret.value)) <=> FilteredOut(b)
    /\ (DidReturn /\ content.valid /\ FixedMode) =>
          \A b \in {c \in FixedCells :
                      ~RatioPositive(EffThreshold)
                      \/ ( c[3] - c[1] >= ReqWidth \div 2
                           /\ c[4] - c[2] >= ReqHeight \div 2 )} :
              (b \notin BBoxes(ret.value)) <=> FilteredOut(b)

\* fixed mode, positive threshold: a tile scoring exactly the threshold is
\* returned and a tile scoring less is not
C5_Witness ==
    /\ DidReturn /\ content.valid /\ FixedMode /\ RatioPositive(EffThreshold)
    /\ \E b \in BBoxes(ret.value) :
          ~RatioLess(ScoreOf(b), EffThreshold) /\ ~RatioLess(EffThreshold, ScoreOf(b))
    /\ \E b \in FixedCells : FilteredOut(b) /\ RatioPositive(ScoreOf(b))
                             /\ b \notin BBoxes(ret.value)

\* C6 as stated: with a positive threshold a tile clipped to less than half the
\* requested width or height is left out, for every tile size.
C6_BelowExactHalfDiscarded ==
    (DidReturn /\ content.valid /\ FixedMode /\ RatioPositive(EffThreshold)) =>
        \A b \in FixedCells :
            (2 * (b[3] - b[1]) < ReqWidth \/ 2 * (b[4] - b[2]) < ReqHeight)
                => b \notin BBoxes(ret.value)

\* C6 amended: the size rule compares with floor(tile size / 2).  With a
\* positive threshold a tile clipped below floor(w/2) or floor(h/2) is left
\* out; with threshold 0 no tile is left out; a tile of at least the floored
\* half in both axes is left out only by the complexity filter.
C6_BelowFlooredHalfDiscarded ==
    (DidReturn /\ content.valid /\ FixedMode) =>
        \A b \in FixedCells :
            LET small == b[3] - b[1] < ReqWidth \div 2 \/ b[4] - b[2] < ReqHeight \div 2
            IN  /\ (RatioPositive(EffThreshold) /\ small) => b \notin BBoxes(ret.value)
                /\ ~RatioPositive(EffThreshold) => b \in BBoxes(ret.value)
                /\ ~small => (b \notin BBoxes(ret.value) <=> FilteredOut(b))

\* positive threshold: one tile under the floored half is left out, and a tile
\* of an odd size clipped below the exact half is returned
C6_Witness ==
    /\ DidReturn /\ content.valid /\ FixedMode /\ RatioPositive(EffThreshold)
    /\ ReqWidth = 3
    /\ \E b \in BBoxes(ret.value) : 2 * (b[3] - b[1]) < ReqWidth
    /\ \E b \in FixedCells : b[4] - b[2] < ReqHeight \div 2 /\ ~FilteredOut(b)
                             /\ b \notin BBoxes(ret.value)

\* C7: with overlap 0 and threshold 0 the returned bboxes are pairwise
\* disjoint and cover the image, in both modes, for every image size.
C7_ExactTiling ==
    (DidReturn /\ content.valid /\ ~RatioPositive(EffOverlap) /\ ~RatioPositive(EffThreshold))
        => (Disjoint(ret.value) /\ Covers(ret.value))

\* a grid that does not divide the image size, several tiles returned
C7_Witness ==
    /\ DidReturn /\ content.valid /\ GridMode
    /\ ~RatioPositive(EffOverlap) /\ ~RatioPositive(EffThreshold)
    /\ NumH = 2 /\ pageImage.width = 3 /\ Len(ret.value) >= 2

\* C8 as stated: in fixed mode a call with a positive overlap ratio returns at
\* least as many fragments as the same call with overlap ratio 0 (stated for
\* calls that pass both tile counts).
C8_OverlapNeverFewer ==
    (Called /\ content.valid /\ FixedMode /\ CountsGiven /\ RatioPositive(EffOverlap)) =>
        /\ DidReturn
        /\ Len(ret.value) >=
             Len(tile_page(content, [args EXCEPT !.overlap_ratio = Some(Ratio(0, 1))],
                           config).value)

\* C9: a call with a positive threshold returns no more fragments than the
\* same call with threshold 0, in both modes.
C9_ThresholdNeverMore ==
    (DidReturn /\ RatioPositive(EffThreshold)) =>
        LET base == tile_page(content,
                        [args EXCEPT !.complexity_threshold = Some(Ratio(0, 1))], config)
        IN  base.kind = "returned" /\ Len(ret.value) <= Len(base.value)

\* fixed mode: the threshold removed some tiles and kept others
C9_Witness ==
    /\ DidReturn /\ content.valid /\ FixedMode /\ RatioPositive(EffThreshold)
    /\ Len(ret.value) > 0
    /\ Len(ret.value) <
         Len(tile_page(content,
                [args EXCEPT !.complexity_threshold = Some(Ratio(0, 1))], config).value)

(* ======================= properties of Page ========================== *)
\* C10 as stated: after a Page.fragment call on a page that holds an image,
\* page.fragments is exactly the list that call returned.
C10_FragmentsAreLastResult ==
    (last = "Page.fragment" /\ content.valid)
        => (ret.kind = "returned" /\ fragments = ret.value)

(* ================= properties of the call parameters ================= *)
\* the configuration field a tiling argument falls back to
ConfigField(field) ==
    CASE field = "overlap_ratio" -> "fragment_overlap_ratio"
      [] field = "complexity_threshold" -> "fragment_complexity_threshold"
      [] field = "num_tiles_horizontal" -> "fragment_num_tiles_horizontal"
      [] field = "num_tiles_vertical" -> "fragment_num_tiles_vertical"
TilingFields ==
    {"overlap_ratio", "complexity_threshold", "num_tiles_horizontal", "num_tiles_vertical"}

\* C11 as stated: a tile_page call that passes None for a tiling field has the
\* outcome of the same call with the configured value of that field passed
\* explicitly (so the configuration holds such a value), for each of
\* overlap_ratio, complexity_threshold, num_tiles_horizontal, num_tiles_vertical.
C11_NoneActsAsConfigured ==
    (Called /\ content.valid) =>
        \A field \in TilingFields :
            args[field] = None =>
                /\ HasAttr(config, ConfigField(field))
                /\ ret = tile_page(content,
                            [args EXCEPT ![field] = Some(config[ConfigField(field)])],
                            config)

\* C13 as stated: when tile counts are passed together with a tile size and
\* the call returns, the page was tiled in grid mode with those counts.
C13_CountsOverrideTileSize ==
    (DidReturn /\ content.valid /\ args.tile_size # None /\ CountsGiven) =>
        ret = _create_grid_tiles(pageImage, pageImage.width, pageImage.height,
                                 NumH, NumV, EffOverlap, EffThreshold)

\* the parameter combinations the specification calls configuration errors
InUnitInterval(r, closed) ==
    /\ r.num >= 0
    /\ IF closed THEN r.num <= r.den ELSE r.num < r.den
InvalidParameters ==
    \/ args.tile_size # None
         /\ (args.num_tiles_horizontal # None \/ args.num_tiles_vertical # None)
    \/ args.overlap_ratio # None /\ ~InUnitInterval(args.overlap_ratio[1], FALSE)
    \/ args.complexity_threshold # None
         /\ ~InUnitInterval(args.complexity_threshold[1], TRUE)
    \/ args.tile_size # None /\ (ReqWidth <= 0 \/ ReqHeight <= 0)
    \/ args.num_tiles_horizontal # None /\ NumH <= 0
    \/ args.num_tiles_vertical # None /\ NumV <= 0

\* C14 as stated: a tile_page call on a page image whose parameters are
\* mutually exclusive (a tile size together with tile counts) or out of range
\* fails with a configuration error and produces no fragment list.
C14_InvalidParametersFailFast ==
    (Called /\ content.valid /\ InvalidParameters) =>
        (ret.kind = "raised" /\ ret.exc = "ConfigurationError")

(* ============== tiling under a replaced configuration ================ *)
\* keyword arguments a test passes to set_config_for_test: a small tile
\* size, tile size with overlap and threshold, the tile counts that
\* test_fragmenter.py passes, fields outside the fragmenter, values of
\* another type that convert (a digit string, a whole float, "yes") and
\* values that do not
TestKwargs ==
    { [fragment_tile_width |-> PyInt(2), fragment_tile_height |-> PyInt(2)],
      [databricks_host |-> PyStr(<< "h", "t", "t", "p", "s", ":", "/", "/", "c", "t", "o", "r", ".", "c", "l", "o", "u", "d", ".", "d", "a", "t", "a", "b", "r", "i", "c", "k", "s", ".", "c", "o", "m" >>)],
      [log_level |-> PyStr(<< "I", "N", "F", "O" >>)],
      [fragment_tile_width |-> PyInt(3), fragment_tile_height |-> PyInt(2),
       fragment_overlap_ratio |-> PyFloat(Ratio(1, 4)),
       fragment_complexity_threshold |-> PyFloat(Ratio(1, 2))],
      [fragment_tile_width |-> PyInt(2), fragment_tile_height |-> PyInt(2),
       fragment_num_tiles_horizontal |-> PyInt(2),
       fragment_num_tiles_vertical |-> PyInt(2)],
      [fragment_tile_width |-> PyStr(<< "3" >>), fragment_tile_height |-> PyFloat(Ratio(2, 1)),
       fragment_dynamic_enabled |-> PyStr(<< "y", "e", "s" >>)],
      [fragment_tile_width |-> PyStr(<< " ", "3" >>),
       fragment_overlap_ratio |-> PyStr(<< "0", ".", "2", "5" >>)],
      [fragment_tile_width |-> PyStr(<< "w", "i", "d", "e" >>)],
      [fragment_tile_height |-> PyFloat(Ratio(5, 2))],
      [fragment_tile_width |-> PyNone],
      [fragment_overlap_ratio |-> PyStr(<< "h", "a", "l", "f" >>)],
      [fragment_dynamic_enabled |-> PyStr(<< "m", "a", "y", "b", "e" >>)],
      [log_level |-> PyInt(10)],
      [allowed_pdf_extensions |-> PyStr(<< ".", "p", "d", "f" >>)] }

InitCfg ==
    /\ content \in Contents
    /\ config = AppConfig
    /\ args \in { Arg(None, o, t, nh, nv) :
                    o \in Opt(Overlaps), t \in Opt(Thresholds),
                    nh \in Opt({1, 2}), nv \in Opt({1, 2}) }
    /\ fragments = <<>>
    /\ last = "none"
    /\ ret = NotCalled
    /\ NoOthers

\* set_config_for_test(**kw): the global settings object is replaced unless
\* AppConfig(**kw) raises
SetConfigForTest ==
    \E kw \in TestKwargs :
        /\ config' = IF ConfigAccepts(kw) THEN set_config_for_test(kw) ELSE config
        /\ ret' = IF ConfigAccepts(kw) THEN Returned(<<>>) ELSE Raised("ValidationError")
        /\ last' = "set_config_for_test"
        /\ UNCHANGED << content, args, fragments >>
        /\ UNCHANGED others

NextCfg == SetConfigForTest \/ TilePage

SpecCfg == InitCfg /\ [][NextCfg]_vars

\* C12 as stated: when tile_page is called without a tile_size and returns,
\* every fragment is at most fragment_tile_width wide and at most
\* fragment_tile_height high, the values of the current configuration.
C12_TilesWithinConfiguredSize ==
    (DidReturn /\ content.valid /\ args.tile_size = None) =>
        \A b \in BBoxes(ret.value) :
            /\ b[3] - b[1] <= config.fragment_tile_width
            /\ b[4] - b[2] <= config.fragment_tile_height

(* ==================== scoring a region of an image =================== *)
\* grey inks on both sides of the near-white threshold
ScoreInks == {Black, <<128, 128, 128>>, <<239, 239, 239>>, <<240, 240, 240>>}
ScoreImages ==
    { [width |-> w, height |-> h, inkX |-> ix, inkY |-> iy, ink |-> c] :
        w \in 1..MaxDim, h \in 1..MaxDim, ix \in 0..MaxDim, iy \in 0..MaxDim,
        c \in ScoreInks }
\* the regions image[y1:y2, x1:x2] of an image, empty ones included
Regions(img) ==
    { <<x1, y1, x2, y2>> : x1 \in 0..img.width, y1 \in 0..img.height,
                           x2 \in 0..img.width, y2 \in 0..img.height }

\* an image, and the region of it handed to the scorer (None: no image)
InitScore ==
    /\ content \in { [valid |-> TRUE, image |-> img] :
                        img \in {i \in ScoreImages : ImageOK(i)} }
    /\ config = AppConfig
    /\ args \in Opt({r \in Regions(content.image) : r[1] <= r[3] /\ r[2] <= r[4]})
    /\ fragments = <<>>
    /\ last = "none"
    /\ ret = NotCalled
    /\ NoOthers

\* Fragmenter._calculate_complexity(region)
CalculateComplexity ==
    /\ ret' = Returned(_calculate_complexity(
                  IF args = None THEN None
                  ELSE Slice(content.image, args[1][1], args[1][2], args[1][3], args[1][4])))
    /\ last' = "_calculate_complexity"
    /\ UNCHANGED << content, config, args, fragments >>
    /\ UNCHANGED others

NextScore == CalculateComplexity

SpecScore == InitScore /\ [][NextScore]_vars

Scored == last = "_calculate_complexity"
RegionPixels == (args[1][3] - args[1][1]) * (args[1][4] - args[1][2])
\* the pixels of the region that lie in the ink rectangle
RegionInkPixels ==
    Max(0, args[1][3] - Max(args[1][1], content.image.inkX))
      * Max(0, args[1][4] - Max(args[1][2], content.image.inkY))
\* a grey pixel (g, g, g) has luminance g
InkLuminance == content.image.ink[1]
RegionDarkPixels == IF InkLuminance < 240 THEN RegionInkPixels ELSE 0

\* C15: the complexity score of a region is (pixels of luminance strictly
\* below 240) / (all pixels), a value in [0,1] that is 0 for an all-white
\* region and 1 for an all-black one and does not count luminance 240; a
\* null or zero-size region scores exactly 0, and the call never raises.
C15_ScoreIsShareBelow240 ==
    Scored =>
        /\ ret.kind = "returned"
        /\ ret.value.den > 0
        /\ 0 <= ret.value.num /\ ret.value.num <= ret.value.den
        /\ IF args = None \/ RegionPixels = 0
           THEN ret.value.num = 0
           ELSE ret.value.num * RegionPixels = RegionDarkPixels * ret.value.den

\* a region half covered by ink of luminance 239 scores one half
C15_Witness ==
    /\ Scored /\ args # None
    /\ InkLuminance = 239
    /\ RegionPixels >= 2
    /\ 2 * RegionInkPixels = RegionPixels
    /\ 2 * ret.value.num = ret.value.den

(* ===================== bounds of the grid cells ====================== *)
\* the bounds of cell (row, col) written with floor for the lower and, by
\* choice of the rounding "up", ceiling or floor for the upper bounds;
\* base_w = width / H and base_h = height / V are real valued
CellBounds(row, col, up) ==
    LET w == pageImage.width
        h == pageImage.height
        o == EffOverlap
        lowX == (col * w * o.den - w * o.num) \div (NumH * o.den)
        lowY == (row * h * o.den - h * o.num) \div (NumV * o.den)
        numX == (col + 1) * w * o.den + w * o.num
        numY == (row + 1) * h * o.den + h * o.num
        highX == IF up THEN -((-numX) \div (NumH * o.den)) ELSE numX \div (NumH * o.den)
        highY == IF up THEN -((-numY) \div (NumV * o.den)) ELSE numY \div (NumV * o.den)
    IN  << Max(0, lowX), Max(0, lowY),
           IF col = NumH - 1 THEN w ELSE Min(w, highX),
           IF row = NumV - 1 THEN h ELSE Min(h, highY) >>
\* the non-empty cells, which a grid call with threshold 0 returns
NonEmptyCells(up) ==
    { b \in { CellBounds(row, col, up) : row \in 0..(NumV - 1), col \in 0..(NumH - 1) } :
        b[1] < b[3] /\ b[2] < b[4] }
GridCallNoFilter ==
    DidReturn /\ content.valid /\ GridMode /\ ~RatioPositive(EffThreshold)

\* C16 as stated: the grid cell (row, col) has x1 = max(0, floor(col*base_w -
\* base_w*overlap)), y1 likewise, x2 = min(width, ceil((col+1)*base_w +
\* base_w*overlap)), y2 likewise, x2 = width in the last column and
\* y2 = height in the last row; seen on the fragments of a grid call with
\* threshold 0, which are the non-empty cells.
C16_UpperBoundsCeil ==
    GridCallNoFilter => BBoxes(ret.value) = NonEmptyCells(TRUE)

\* C16 amended: the same with the upper bounds rounded down, x2 = min(width,
\* floor((col+1)*base_w + base_w*overlap)) and y2 = min(height,
\* floor((row+1)*base_h + base_h*overlap)).
C16_UpperBoundsFloor ==
    GridCallNoFilter => BBoxes(ret.value) = NonEmptyCells(FALSE)

\* a grid call with overlap returned a cell whose upper bound is not a whole
\* number before rounding, so that floor and ceiling differ
C16_Witness ==
    /\ GridCallNoFilter /\ RatioPositive(EffOverlap)
    /\ \E row \in 0..(NumV - 1), col \in 0..(NumH - 1) :
          /\ CellBounds(row, col, FALSE) # CellBounds(row, col, TRUE)
          /\ CellBounds(row, col, FALSE) \in BBoxes(ret.value)

(* ============================ resizing =============================== *)
\* Python min(a, b) on two ratios: b when b < a, else a
RatioMin(a, b) == IF RatioLess(b, a) THEN b ELSE a

\* int(x * scale) with scale a double
ScaledInt(x, scale) ==
    IntOfDouble(x * scale.num, scale.den, IsPowerOfTwo(scale.den),
                DMul(DFromInt(x), DRatio(scale)))

\* not what the resizer does: round(x * scale), to the nearest whole number
\* and a half to the even one, where the code truncates with int(); used by
\* the rounding variant of the resizer below and by nothing else
ScaledRound(x, scale) ==
    LET twice == 2 * x * scale.num
        low == (x * scale.num) \div scale.den
    IN  IF twice - 2 * low * scale.den < scale.den THEN low
        ELSE IF twice - 2 * low * scale.den > scale.den THEN low + 1
        ELSE IF low % 2 = 0 THEN low ELSE low + 1

\* a blank image of the given size, and cv2.resize of a blank image
Blank(w, h) == [width |-> w, height |-> h, inkX |-> w, inkY |-> h, ink |-> Black]
\* what the resizer returns: the array, and whether it is the input object
Array(img, is_input) == [array |-> img, is_input |-> is_input]
\* cv2.resize(image, (new_width, new_height), INTER_AREA): an empty target
\* size is rejected
cv2_resize(image, new_width, new_height) ==
    IF new_width <= 0 \/ new_height <= 0
    THEN Raised("cv2.error")
    ELSE Returned(Array(Blank(new_width, new_height), FALSE))

\* the resizer with strict comparisons in the early return
_resize_image_if_needed_Strict(image, cfg) ==
    LET width == image.width
        height == image.height
        max_width == cfg.image_max_width
        max_height == cfg.image_max_height
        scale_factor == RatioMin(Ratio(max_width, width), Ratio(max_height, height))
    IN  IF width < max_width /\ height < max_height
        THEN Returned(Array(image, TRUE))
        ELSE cv2_resize(image, ScaledInt(width, scale_factor), ScaledInt(height, scale_factor))

\* the resizer taking the larger of the two ratios
_resize_image_if_needed_MaxRatio(image, cfg) ==
    LET width == image.width
        height == image.height
        max_width == cfg.image_max_width
        max_height == cfg.image_max_height
        scale_factor == RatioMin(Ratio(max_width, width), Ratio(max_height, height))
        other == IF scale_factor = Ratio(max_width, width)
                 THEN Ratio(max_height, height) ELSE Ratio(max_width, width)
    IN  IF width <= max_width /\ height <= max_height
        THEN Returned(Array(image, TRUE))
        ELSE cv2_resize(image, ScaledInt(width, other), ScaledInt(height, other))

\* the resizer rounding to the nearest whole number
_resize_image_if_needed_Round(image, cfg) ==
    LET width == image.width
        height == image.height
        max_width == cfg.image_max_width
        max_height == cfg.image_max_height
        scale_factor == RatioMin(Ratio(max_width, width), Ratio(max_height, height))
    IN  IF width <= max_width /\ height <= max_height
        THEN Returned(Array(image, TRUE))
        ELSE cv2_resize(image, ScaledRound(width, scale_factor),
                        ScaledRound(height, scale_factor))

\* the resizer scaling each axis by its own ratio
_resize_image_if_needed_PerAxis(image, cfg) ==
    LET width == image.width
        height == image.height
        max_width == cfg.image_max_width
        max_height == cfg.image_max_height
    IN  IF width <= max_width /\ height <= max_height
        THEN Returned(Array(image, TRUE))
        ELSE cv2_resize(image, ScaledInt(width, Ratio(max_width, width)),
                        ScaledInt(height, Ratio(max_height, height)))

\* DocumentFactory._resize_image_if_needed(image)
_resize_image_if_needed(image, cfg) ==
    LET width == image.width
        height == image.height
        max_width == cfg.image_max_width
        max_height == cfg.image_max_height
        width_ratio == Ratio(max_width, width)
        height_ratio == Ratio(max_height, height)
        scale_factor == RatioMin(width_ratio, height_ratio)
        new_width == ScaledInt(width, scale_factor)
        new_height == ScaledInt(height, scale_factor)
    IN  IF width <= max_width /\ height <= max_height
        THEN Returned(Array(image, TRUE))
        ELSE cv2_resize(image, new_width, new_height)

\* an image read from a file, and settings with some maximum size
InitResize ==
    /\ content \in { [valid |-> TRUE, image |-> Blank(w, h)] :
                        w \in 1..MaxSrcDim, h \in 1..MaxSrcDim }
    /\ config \in { set_config_for_test([image_max_width |-> PyInt(mw),
                                         image_max_height |-> PyInt(mh)]) :
                        mw \in 1..MaxLimit, mh \in 1..MaxLimit }
    /\ args = None
    /\ fragments = <<>>
    /\ last = "none"
    /\ ret = NotCalled
    /\ NoOthers

ResizeImageIfNeeded ==
    /\ ret' = _resize_image_if_needed(content.image, config)
    /\ last' = "_resize_image_if_needed"
    /\ UNCHANGED << content, config, args, fragments >>
    /\ UNCHANGED others

NextResize == ResizeImageIfNeeded

SpecResize == InitResize /\ [][NextResize]_vars

(* ===================== properties of the resizer ===================== *)
Resized == last = "_resize_image_if_needed"
SrcWidth == content.image.width
SrcHeight == content.image.height
WithinBounds ==
    SrcWidth <= config.image_max_width /\ SrcHeight <= config.image_max_height
\* an oversized image was resized and the call returned
Shrunk == Resized /\ ~WithinBounds /\ ret.kind = "returned"
OutWidth == ret.value.array.width
OutHeight == ret.value.array.height
\* scale = min(max_width / width, max_height / height), as a fraction
ScaleNum ==
    IF config.image_max_width * SrcHeight <= config.image_max_height * SrcWidth
    THEN config.image_max_width ELSE config.image_max_height
ScaleDen ==
    IF config.image_max_width * SrcHeight <= config.image_max_height * SrcWidth
    THEN SrcWidth ELSE SrcHeight

\* C17: the resizer returns its input image unchanged whenever width <=
\* max_width and height <= max_height, equality included, and returns a
\* resized image only when a dimension exceeds its bound.
C17_IdentityIffWithinBounds ==
    Resized =>
        /\ WithinBounds => ret = Returned(Array(content.image, TRUE))
        /\ (ret.kind = "returned" /\ ~ret.value.is_input) => ~WithinBounds

\* an image exactly as wide as the maximum came back unchanged
C17_Witness ==
    /\ Resized /\ ret.kind = "returned"
    /\ SrcWidth = config.image_max_width /\ SrcHeight < config.image_max_height
    /\ ret.value.is_input /\ ret.value.array = content.image

\* C18: for an image that exceeds max_width or max_height the resized output
\* is at most max_width wide and max_height high, and no output dimension is
\* larger than the input dimension.
C18_OutputWithinBounds ==
    Shrunk =>
        /\ OutWidth <= config.image_max_width
        /\ OutHeight <= config.image_max_height
        /\ OutWidth <= SrcWidth
        /\ OutHeight <= SrcHeight

\* an image too wide only: the output is exactly max_width wide and lower
\* than the input
C18_Witness ==
    /\ Shrunk
    /\ SrcWidth > config.image_max_width /\ SrcHeight <= config.image_max_height
    /\ OutWidth = config.image_max_width
    /\ OutHeight < SrcHeight

\* the nearest whole number to x * scale, a half going to the even neighbour
Nearest(x) ==
    CHOOSE k \in 0..x :
        /\ 2 * (k * ScaleDen - x * ScaleNum) <= ScaleDen
        /\ 2 * (x * ScaleNum - k * ScaleDen) <= ScaleDen
        /\ (2 * (k * ScaleDen - x * ScaleNum) = ScaleDen => k % 2 = 0)
        /\ (2 * (x * ScaleNum - k * ScaleDen) = ScaleDen => k % 2 = 0)

\* C19 as stated: for an oversized image the output size is exactly
\* (round(width*scale), round(height*scale)), scale = min(max_width/width,
\* max_height/height).
C19_SizeIsRounded ==
    Shrunk => (OutWidth = Nearest(SrcWidth) /\ OutHeight = Nearest(SrcHeight))

\* x * scale cut to a whole number: k <= x*scale < k + 1 when x*scale is not
\* whole, and k = x*scale or k = x*scale - 1 when it is
Truncated(x, k) ==
    IF (x * ScaleNum) % ScaleDen # 0
    THEN k * ScaleDen < x * ScaleNum /\ x * ScaleNum < (k + 1) * ScaleDen
    ELSE k * ScaleDen = x * ScaleNum \/ (k + 1) * ScaleDen = x * ScaleNum

\* C19 amended: the output size is (int(width*scale), int(height*scale)):
\* each product is truncated, not rounded; a product that is a whole number
\* in exact arithmetic may come out one lower.
C19_SizeIsTruncated ==
    Shrunk => (Truncated(SrcWidth, OutWidth) /\ Truncated(SrcHeight, OutHeight))

\* the scaled height has a fraction of one half or more, and was cut down
C19_Witness ==
    /\ Shrunk
    /\ 2 * ((SrcHeight * ScaleNum) % ScaleDen) >= ScaleDen
    /\ OutHeight = (SrcHeight * ScaleNum) \div ScaleDen

\* C20 as stated: for an oversized image each output dimension differs from
\* its exact scaled value (width*scale, height*scale) by less than one pixel.
C20_LessThanOnePixelOff ==
    Shrunk =>
        /\ OutWidth * ScaleDen <= SrcWidth * ScaleNum
        /\ SrcWidth * ScaleNum < (OutWidth + 1) * ScaleDen
        /\ OutHeight * ScaleDen <= SrcHeight * ScaleNum
        /\ SrcHeight * ScaleNum < (OutHeight + 1) * ScaleDen

\* C20 amended: each output dimension is at most its exact scaled value and
\* differs from it by at most one pixel.
C20_AtMostOnePixelOff ==
    Shrunk =>
        /\ OutWidth * ScaleDen <= SrcWidth * ScaleNum
        /\ SrcWidth * ScaleNum <= (OutWidth + 1) * ScaleDen
        /\ OutHeight * ScaleDen <= SrcHeight * ScaleNum
        /\ SrcHeight * ScaleNum <= (OutHeight + 1) * ScaleDen

\* the output width is a whole pixel below the exact scaled width
C20_Witness ==
    /\ Shrunk
    /\ (OutWidth + 1) * ScaleDen = SrcWidth * ScaleNum

(* ====================== Page.visualize_fragments ===================== *)
\* the eight colours the boxes cycle through
color_palette ==
    << <<0, 255, 0>>, <<255, 0, 0>>, <<0, 0, 255>>, <<255, 255, 0>>,
       <<255, 0, 255>>, <<0, 255, 255>>, <<128, 0, 128>>, <<255, 165, 0>> >>

\* what is drawn for fragment number i: its box in the colour of its
\* position, and its number as label
Drawn(frags, i, line_thickness) ==
    [bbox |-> frags[i].bbox,
     color |-> color_palette[((i - 1) % Len(color_palette)) + 1],
     thickness |-> line_thickness,
     label |-> i]

\* the boxes drawn on the copy of the image, one per fragment
Boxes(page, line_thickness) ==
    [i \in 1..Len(page.fragments) |-> Drawn(page.fragments, i, line_thickness)]
\* the whole of an image as an array
Whole(image) == Slice(image, 0, 0, image.width, image.height)

\* the end of visualize_fragments: the outcome of cv2.imencode on the copy
Encoded(page, image, jpeg, boxes) ==
    IF jpeg.raises THEN [outcome |-> Raised("cv2.error"), page |-> page]
    ELSE IF ~jpeg.success THEN [outcome |-> Raised("ValueError"), page |-> page]
    ELSE [outcome |-> Returned([format |-> "jpg", width |-> image.width,
                                height |-> image.height, boxes |-> boxes]),
          page |-> page]
\* the same, taking the fragments off the page
Encoded_Consuming(page, image, jpeg, boxes) ==
    [Encoded(page, image, jpeg, boxes) EXCEPT !.page.fragments = <<>>]

\* visualize_fragments that takes the fragments off the page as it draws them
visualize_fragments_Consuming(page, line_thickness) ==
    IF imdecode(page.content) = None
    THEN [outcome |-> Raised("ValueError"), page |-> page]
    ELSE Encoded_Consuming(page, imdecode(page.content)[1],
                           imencode(Whole(imdecode(page.content)[1])),
                           Boxes(page, line_thickness))

\* Page.visualize_fragments(line_thickness): the outcome of the call and
\* the page as the call leaves it.  The boxes are drawn on a copy of the
\* decoded image; the JPEG of the copy is returned.  An image the encoder
\* refuses ends the call with ValueError, or with the cv2.error the encoder
\* raises, which nothing catches.
visualize_fragments(page, line_thickness) ==
    IF imdecode(page.content) = None
    THEN [outcome |-> Raised("ValueError"), page |-> page]
    ELSE Encoded(page, imdecode(page.content)[1],
                 imencode(Whole(imdecode(page.content)[1])),
                 Boxes(page, line_thickness))

\* tile_page calls whose result the owner of a page keeps in page.fragments
VizArgs ==
    { Arg(None, Some(Ratio(0, 1)), Some(t), Some(nh), Some(nv)) :
        t \in {Ratio(0, 1), Ratio(1, 2)}, nh \in {1, 2}, nv \in {1, 2} }
Thicknesses == {1, 2}
\* how far the page images go beyond the largest encodable width
WideExtra == 1
\* page images one pixel high and about as wide as the encoder's limit:
\* all ink, all ink but the first column, blank
WideImages ==
    { [width |-> w, height |-> 1, inkX |-> ix, inkY |-> IF ix = w THEN 1 ELSE 0,
       ink |-> Black] :
        w \in JpegMaxDim..(JpegMaxDim + WideExtra), ix \in {0, 1, JpegMaxDim + WideExtra} }
\* pages of the usual sizes, and pages too wide for the encoder
VizContents ==
    Contents \cup { [valid |-> TRUE, image |-> img] :
                      img \in {i \in WideImages : ImageOK(i) /\ i.width > JpegMaxDim} }

\* a page with content and with a fragment list: none, or the result of a
\* tile_page call on it
InitViz ==
    /\ pages = <<>> /\ workers = <<>> /\ store = None
    /\ encoder \in EncoderModes
    /\ content \in VizContents
    /\ config = AppConfig
    /\ fragments \in {<<>>} \cup
          { r.value : r \in { q \in { tile_page(content, a, config) : a \in VizArgs } :
                                 q.kind = "returned" } }
    /\ args \in { [line_thickness |-> t] : t \in Thicknesses }
    /\ last = "none"
    /\ ret = NotCalled

VisualizeFragments ==
    LET r == visualize_fragments([content |-> content, fragments |-> fragments],
                                 args.line_thickness)
    IN  /\ ret' = r.outcome
        /\ content' = r.page.content
        /\ fragments' = r.page.fragments
        /\ last' = "visualize_fragments"
        /\ UNCHANGED << config, args >>
        /\ UNCHANGED others

NextViz == VisualizeFragments

SpecViz == InitViz /\ [][NextViz]_vars

\* C21: a visualize_fragments call, whether it returns or raises, leaves
\* page.fragments (same fragments, same order, same bboxes and content) and
\* page.content as they were.
C21_VisualizeLeavesPage ==
    [][ last' = "visualize_fragments" => (fragments' = fragments /\ content' = content) ]_vars

\* a page with several fragments, too wide for the encoder, was visualized:
\* the call ended with the encoder's error and the fragments are on the page
C21_Witness ==
    /\ last = "visualize_fragments"
    /\ ret.kind = "raised" /\ ret.exc = "cv2.error"
    /\ Len(fragments) >= 2
    /\ \A i \in 1..Len(fragments) : fragments[i].bbox[3] > fragments[i].bbox[1]

(* =============== several pages fragmented side by side =============== *)
\* largest page image of a document worked on by several callers
MaxDocDim == 2
\* the pages of the document, each with its own caller
PageIds == {1, 2}

Page(page_number, page_content) ==
    [page_number |-> page_number, content |-> page_content, fragments |-> <<>>]
DocContents ==
    { c \in Contents : c.image.width <= MaxDocDim /\ c.image.height <= MaxDocDim }
DocArgs ==
    { Arg(ts, Some(Ratio(0, 1)), Some(t), nh, nv) :
        ts \in Opt({<<2, 2>>}), t \in {Ratio(0, 1), Ratio(1, 2)},
        nh \in Opt({1, 2}), nv \in Opt({1, 2}) }
Methods == {"tile_page", "Page.fragment"}

\* StoreResult with the list of a direct tile_page call stored as well
StoreResult_Always(pgs, p, method, result) ==
    IF result.kind = "returned"
    THEN [pgs EXCEPT ![p].fragments = result.value]
    ELSE pgs

\* the pages after a caller's call has come back: Page.fragment assigns the
\* list to self.fragments when tile_page returned, a direct tile_page call
\* hands the list to the caller only
StoreResult(pgs, p, method, result) ==
    IF method = "Page.fragment" /\ result.kind = "returned"
    THEN [pgs EXCEPT ![p].fragments = result.value]
    ELSE pgs

\* a document of fresh pages, one caller per page about to fragment it,
\* either through Page.fragment or by calling tile_page directly
InitDoc ==
    /\ content = [valid |-> FALSE, image |-> [width |-> 0, height |-> 0, inkX |-> 0,
                                            inkY |-> 0, ink |-> Black]]
    /\ config = AppConfig
    /\ args \in DocArgs
    /\ fragments = <<>>
    /\ last = "none"
    /\ ret = NotCalled
    /\ pages \in { [p \in PageIds |-> Page(p, f[p])] : f \in [PageIds -> DocContents] }
    /\ workers \in [PageIds -> { [method |-> m, pc |-> "ready", result |-> NotCalled] :
                                       m \in Methods }]
    /\ store = None
    /\ encoder = "flag"

\* caller p runs Fragmenter.tile_page on its page (inside Page.fragment
\* without the tile counts)
WorkerCall(p) ==
    /\ workers[p].pc = "ready"
    /\ LET r == IF workers[p].method = "tile_page"
                THEN tile_page(pages[p].content, args, config)
                ELSE Page_fragment(pages[p].content, args.tile_size, args.overlap_ratio,
                                   args.complexity_threshold, config)
       IN  /\ workers' = [workers EXCEPT ![p].pc = "called", ![p].result = r]
           /\ ret' = r
    /\ last' = workers[p].method
    /\ UNCHANGED << content, config, args, fragments, pages, store, encoder >>

\* the call of caller p comes back: the assignment of Page.fragment, or the
\* exception or the list reaching the caller
WorkerFinish(p) ==
    /\ workers[p].pc = "called"
    /\ pages' = StoreResult(pages, p, workers[p].method, workers[p].result)
    /\ workers' = [workers EXCEPT ![p].pc = "done"]
    /\ UNCHANGED << content, config, args, fragments, last, ret, store, encoder >>

NextDoc == \E p \in PageIds : WorkerCall(p) \/ WorkerFinish(p)

SpecDoc == InitDoc /\ [][NextDoc]_vars

\* C22: tile_page only reads its page and returns a list: no step of any
\* caller, in any interleaving, changes the content of a page, and the stored
\* fragment list of a page changes only by the assignment of a Page.fragment
\* call on that same page, never by a tile_page call and never by work on
\* another page.
C22_PagesIndependent ==
    [][ \A p \in PageIds :
          /\ pages'[p].content = pages[p].content
          /\ pages'[p].fragments # pages[p].fragments =>
                /\ workers[p].method = "Page.fragment"
                /\ workers[p].pc = "called" /\ workers'[p].pc = "done"
                /\ pages'[p].fragments = workers[p].result.value ]_vars

\* both callers are done, their calls interleaved; a direct tile_page call
\* returned fragments of its page and the pages are as they were
C22_Witness ==
    /\ pages # <<>>
    /\ \A p \in PageIds : workers[p].pc = "done"
    /\ \E p \in PageIds :
          /\ workers[p].method = "tile_page"
          /\ workers[p].result.kind = "returned"
          /\ Len(workers[p].result.value) >= 2
    /\ \A p \in PageIds : pages[p].fragments = <<>>

(* ===================== order of the fragment list ==================== *)
\* the candidate tiles in row-major order: row 0 left to right, then row 1
GridRowMajor ==
    [k \in 1..(NumH * NumV) |->
        GridBBox(pageImage.width, pageImage.height, NumH, NumV, EffOverlap,
                 (k - 1) \div NumH, (k - 1) % NumH)]
FixedColumns == RangeLen(pageImage.width, Step(ReqWidth, EffOverlap))
FixedRows == RangeLen(pageImage.height, Step(ReqHeight, EffOverlap))
FixedRowMajor ==
    [k \in 1..(FixedColumns * FixedRows) |->
        FixedBBox(pageImage.width, pageImage.height, ReqWidth, ReqHeight,
                  ((k - 1) % FixedColumns) * Step(ReqWidth, EffOverlap),
                  ((k - 1) \div FixedColumns) * Step(ReqHeight, EffOverlap))]

\* the bboxes s[i..] occur in t[j..] in the same order
RECURSIVE InOrderFrom(_, _, _, _)
InOrderFrom(s, t, i, j) ==
    IF i > Len(s) THEN TRUE
    ELSE IF j > Len(t) THEN FALSE
    ELSE IF s[i].bbox = t[j] THEN InOrderFrom(s, t, i + 1, j + 1)
    ELSE InOrderFrom(s, t, i, j + 1)

\* C23: the fragment list is in row-major tiling order in both modes: the
\* returned fragments are the candidate tiles of the row-major iteration with
\* some left out, the others in their order (an earlier row first, within a
\* row an earlier column first).
C23_RowMajorOrder ==
    (DidReturn /\ content.valid) =>
        InOrderFrom(ret.value, IF GridMode THEN GridRowMajor ELSE FixedRowMajor, 1, 1)

\* fixed mode with a threshold: tiles of two rows and two columns returned,
\* others filtered out
C23_Witness ==
    /\ DidReturn /\ content.valid /\ FixedMode /\ RatioPositive(EffThreshold)
    /\ Len(ret.value) >= 2
    /\ Len(ret.value) < FixedColumns * FixedRows
    /\ \E i, j \in 1..Len(ret.value) :
          /\ ret.value[i].bbox[1] # ret.value[j].bbox[1]
          /\ ret.value[i].bbox[2] # ret.value[j].bbox[2]

(* ================== tiles the encoder cannot encode ================== *)
\* tile widths around the limit and around half of it, two pixels high to
\* keep the vertical step positive
WideTiles ==
    { <<JpegMaxDim + 1, 2>>, <<JpegMaxDim, 2>>, <<JpegMaxDim \div 2, 2>> }
WideArgs ==
    { Arg(Some(ts), Some(o), Some(t), Some(1), Some(1)) :
        ts \in WideTiles, o \in {Ratio(0, 1), Ratio(1, 2)},
        t \in {Ratio(0, 1), Ratio(1, 2)} }
    \cup { Arg(None, Some(o), Some(t), Some(nh), Some(1)) :
        o \in {Ratio(0, 1), Ratio(1, 2)}, t \in {Ratio(0, 1), Ratio(1, 2)},
        nh \in 1..MaxGrid }

InitWide ==
    /\ content \in { [valid |-> TRUE, image |-> img] :
                        img \in {i \in WideImages : ImageOK(i)} }
    /\ config = AppConfig
    /\ args \in WideArgs
    /\ fragments = <<>>
    /\ last = "none"
    /\ ret = NotCalled
    /\ pages = <<>>
    /\ workers = <<>>
    /\ store = None
    /\ encoder \in EncoderModes

NextWide == TilePage

SpecWide == InitWide /\ [][NextWide]_vars

\* the tile with these bounds cannot be encoded
Refused(b) == b[3] - b[1] > JpegMaxDim \/ b[4] - b[2] > JpegMaxDim
\* the tile with these bounds survives the filters of its mode
Survives(b) ==
    /\ b[1] < b[3] /\ b[2] < b[4]
    /\ FixedMode /\ RatioPositive(EffThreshold) =>
          ~( b[3] - b[1] < ReqWidth \div 2 \/ b[4] - b[2] < ReqHeight \div 2 )
    /\ ~FilteredOut(b)
RowMajor == IF GridMode THEN GridRowMajor ELSE FixedRowMajor

\* C24: when encoding a tile fails only that tile is left out: tile_page does
\* not raise and returns every other surviving tile, in order, in both
\* modes.
C24_EncodeFailureSkipsTile ==
    (Called /\ content.valid /\ CountsGiven) =>
        /\ ret.kind = "returned"
        /\ [i \in 1..Len(ret.value) |-> ret.value[i].bbox]
             = SelectSeq(RowMajor, LAMBDA b : Survives(b) /\ ~Refused(b))

\* what holds of C24: on a build that reports the refusal by the success flag
\* the refused tile alone is left out
C24_SkipsWhenFlagged ==
    (Called /\ content.valid /\ CountsGiven /\ encoder = "flag") =>
        /\ ret.kind = "returned"
        /\ [i \in 1..Len(ret.value) |-> ret.value[i].bbox]
             = SelectSeq(RowMajor, LAMBDA b : Survives(b) /\ ~Refused(b))

\* a surviving tile was refused by the encoder and left out, a later tile of
\* the same call was returned
C24_Witness ==
    /\ DidReturn /\ content.valid
    /\ Len(ret.value) >= 1
    /\ \E k \in 1..Len(RowMajor) :
          /\ Survives(RowMajor[k]) /\ Refused(RowMajor[k])
          /\ \E m \in (k + 1)..Len(RowMajor) : RowMajor[m] = ret.value[1].bbox

(* ==================== sizes of the returned tiles ==================== *)
WholeImage == << 0, 0, pageImage.width, pageImage.height >>

\* C25 as stated: in fixed-size mode (tile counts passed along) an image
\* smaller than the requested tile size whose content scores above the
\* complexity threshold yields at least one fragment, and no fragment extends
\* beyond the image.
C25_SmallImageYieldsFragment ==
    ( /\ Called /\ content.valid /\ FixedMode /\ CountsGiven
      /\ pageImage.width < ReqWidth /\ pageImage.height < ReqHeight
      /\ RatioLess(EffThreshold, ScoreOf(WholeImage)) )
    => /\ ret.kind = "returned"
       /\ Len(ret.value) >= 1
       /\ \A b \in BBoxes(ret.value) : b[3] <= pageImage.width /\ b[4] <= pageImage.height

GridCallWithOverlap == GridCallNoFilter /\ RatioPositive(EffOverlap)

\* C26 as stated: in grid mode with a positive overlap_ratio and threshold 0
\* every fragment is at least as wide as the base tile width width/H and at
\* least as tall as the base tile height height/V.
C26_AtLeastBaseSize ==
    GridCallWithOverlap =>
        \A b \in BBoxes(ret.value) :
            /\ (b[3] - b[1]) * NumH >= pageImage.width
            /\ (b[4] - b[2]) * NumV >= pageImage.height

\* C26 amended: every fragment is wider than base_w - 1 and taller than
\* base_h - 1, base_w = width/H, base_h = height/V; it is at least base_w wide
\* when the overlap base_w * overlap is one pixel or more, and at least
\* base_h tall when base_h * overlap is.
C26_BaseSizeWithinOnePixel ==
    GridCallWithOverlap =>
        \A b \in BBoxes(ret.value) :
            /\ (b[3] - b[1] + 1) * NumH > pageImage.width
            /\ (b[4] - b[2] + 1) * NumV > pageImage.height
            /\ pageImage.width * EffOverlap.num >= NumH * EffOverlap.den
                 => (b[3] - b[1]) * NumH >= pageImage.width
            /\ pageImage.height * EffOverlap.num >= NumV * EffOverlap.den
                 => (b[4] - b[2]) * NumV >= pageImage.height

\* two columns with an overlap of a whole pixel: the fragments are wider
\* than the base tile
C26_Witness ==
    /\ GridCallWithOverlap
    /\ NumH = 2
    /\ pageImage.width * EffOverlap.num >= NumH * EffOverlap.den
    /\ Len(ret.value) >= 2
    /\ \A b \in BBoxes(ret.value) : (b[3] - b[1]) * NumH > pageImage.width

(* ------------------------- VolumeFileStore.upload_file ------------------------- *)
\* the local paths a caller passes and the file names of the volume
LocalPaths == {"/in/a.pdf", "/in/b.pdf"}
FileNames == {"a.pdf", "b.pdf", "c.pdf"}

\* os.path.basename
basename(file_path) == IF file_path = "/in/a.pdf" THEN "a.pdf" ELSE "b.pdf"

\* what a local path is: nothing, a readable file, or something that exists
\* and cannot be opened for reading (a directory)
LocalKinds == {"missing", "file", "directory"}

\* os.path.exists
local_file_exists(st, file_path) == st.local[file_path] # "missing"

\* Volume.get_file_path: the volume path and the file name
Volume == [catalog |-> "catalog", schema_name |-> "schema", volume_name |-> "volume"]
get_file_path(file_name) == << "/Volumes/catalog/schema/volume", file_name >>

\* client.files.get_metadata: returns for a file of the volume, raises for a
\* file that is not there, and raises for every file when the client is set
\* to fail the call (no permission, no connection)
get_metadata(st, file_name) ==
    IF st.client.metadata_fails \/ file_name \notin st.remote
    THEN Raised("Exception")
    ELSE Returned(file_name)

\* VolumeFileStore.file_exists: any exception of get_metadata means False
file_exists(st, file_name) == get_metadata(st, file_name).kind = "returned"

\* open(file_path, "rb")
open(st, file_path) ==
    IF st.local[file_path] = "file" THEN Returned(file_path)
    ELSE IF st.local[file_path] = "directory" THEN Raised("IsADirectoryError")
    ELSE Raised("builtins.FileNotFoundError")

\* client.files.upload: recorded in the calls the client received; it raises
\* when the client is set to fail
files_upload(st, volume_file_path, f, overwrite) ==
    [ store |-> [st EXCEPT !.uploads = Append(@, [path |-> volume_file_path,
                                                    file |-> f,
                                                    overwrite |-> overwrite]),
                           !.remote = IF st.client.upload_fails THEN @
                                      ELSE @ \cup {volume_file_path[2]}],
      outcome |-> IF st.client.upload_fails THEN Raised("upload_error")
                  ELSE Returned(None) ]

\* client.files.download: raises for a file that is not in the volume and
\* when the client is set to fail
files_download(st, volume_file_path) ==
    IF st.client.download_fails \/ volume_file_path[2] \notin st.remote
    THEN Raised("download_error")
    ELSE Returned(volume_file_path[2])

\* resp.contents.read(): raises when the stream of the response breaks
contents_read(st, resp) ==
    IF st.client.read_fails THEN Raised("read_error") ELSE Returned(resp)

\* open(download_path, "wb"): the file is created or emptied; a directory
\* cannot be opened
open_wb(st, download_path) ==
    IF st.local[download_path] = "directory"
    THEN [store |-> st, outcome |-> Raised("IsADirectoryError")]
    ELSE [store |-> [st EXCEPT !.local[download_path] = "file"],
          outcome |-> Returned(download_path)]

\* os.unlink: removes a file; the caller ignores its failure on anything else
unlink(st, path) ==
    IF st.local[path] = "file" THEN [st EXCEPT !.local[path] = "missing"] ELSE st

\* VolumeUploadError(file_path, volume_path, original_error)
VolumeUploadError(original_error) ==
    [kind |-> "raised", exc |-> "VolumeUploadError", value |-> << original_error >>]

\* the callers of one store, and the calls they make
Callers == {1, 2}
UploadArgs ==
    [ file_path : LocalPaths, overwrite : BOOLEAN,
      destination_filename : Opt({"c.pdf"}) ]
DownloadArgs == [ file_name : {"c.pdf"}, download_path : LocalPaths ]
Calls ==
    { [op |-> "upload_file", args |-> a, pc |-> "ready", file_name |-> "",
       result |-> NotCalled] : a \in UploadArgs }
    \cup { [op |-> "download_file", args |-> a, pc |-> "ready", file_name |-> a.file_name,
            result |-> NotCalled] : a \in DownloadArgs }

\* a store on some volume and some local files, with a client that has
\* received no call, and two callers each about to make a call
InitUpload ==
    /\ content = [valid |-> FALSE, image |-> [width |-> 0, height |-> 0, inkX |-> 0,
                                            inkY |-> 0, ink |-> Black]]
    /\ config = AppConfig
    /\ args = None
    /\ fragments = <<>>
    /\ last = "none"
    /\ ret = NotCalled
    /\ pages = <<>>
    /\ workers \in [Callers -> Calls]
    /\ store \in [ volume : {Volume},
                   local : [LocalPaths -> LocalKinds],
                   remote : SUBSET {"a.pdf", "c.pdf"},
                   client : [metadata_fails : BOOLEAN, upload_fails : BOOLEAN,
                             download_fails : BOOLEAN, read_fails : BOOLEAN],
                   uploads : {<<>>} ]
    /\ encoder = "flag"

StoreOnly == << content, config, args, fragments, last, ret, pages, encoder >>

\* upload_file up to its first request: the local check and the file name
UploadLocalCheck(p) ==
    /\ workers[p].op = "upload_file" /\ workers[p].pc = "ready"
    /\ workers' =
         IF ~local_file_exists(store, workers[p].args.file_path)
         THEN [workers EXCEPT ![p].pc = "done",
                              ![p].result = Raised("FileNotFoundError")]
         ELSE [workers EXCEPT ![p].pc = "file_exists",
                              ![p].file_name =
                                  IF ~IsNone(workers[p].args.destination_filename)
                                  THEN workers[p].args.destination_filename[1]
                                  ELSE basename(workers[p].args.file_path)]
    /\ UNCHANGED store
    /\ UNCHANGED StoreOnly

\* upload_file from the answer to get_metadata up to its second request
UploadFileExists(p) ==
    /\ workers[p].op = "upload_file" /\ workers[p].pc = "file_exists"
    /\ workers' =
         IF file_exists(store, workers[p].file_name) /\ ~workers[p].args.overwrite
         THEN [workers EXCEPT ![p].pc = "done",
                              ![p].result = Raised("FileAlreadyExistsError")]
         ELSE [workers EXCEPT ![p].pc = "upload"]
    /\ UNCHANGED store
    /\ UNCHANGED StoreOnly

\* upload_file at open(file_path, "rb"): a path that cannot be opened ends
\* the call, the exception wrapped
UploadOpen(p) ==
    /\ workers[p].op = "upload_file" /\ workers[p].pc = "upload"
    /\ workers' =
         IF open(store, workers[p].args.file_path).kind = "raised"
         THEN [workers EXCEPT
                 ![p].pc = "done",
                 ![p].result = VolumeUploadError(open(store, workers[p].args.file_path).exc)]
         ELSE [workers EXCEPT ![p].pc = "opened"]
    /\ UNCHANGED store
    /\ UNCHANGED StoreOnly

\* upload_file from client.files.upload to its end: the open file is sent,
\* whatever has become of its path, and an exception is wrapped
UploadSend(p) ==
    /\ workers[p].op = "upload_file" /\ workers[p].pc = "opened"
    /\ LET up == files_upload(store, get_file_path(workers[p].file_name),
                              workers[p].args.file_path, workers[p].args.overwrite)
       IN  /\ store' = up.store
           /\ workers' = [workers EXCEPT
                            ![p].pc = "done",
                            ![p].result = IF up.outcome.kind = "raised"
                                          THEN VolumeUploadError(up.outcome.exc)
                                          ELSE Returned(TRUE)]
    /\ UNCHANGED StoreOnly

\* download_file up to the answer to its request
DownloadRequest(p) ==
    /\ workers[p].op = "download_file" /\ workers[p].pc = "ready"
    /\ workers' =
         IF files_download(store, get_file_path(workers[p].file_name)).kind = "raised"
         THEN [workers EXCEPT ![p].pc = "done", ![p].result = Returned(FALSE)]
         ELSE [workers EXCEPT ![p].pc = "open"]
    /\ UNCHANGED store
    /\ UNCHANGED StoreOnly

\* download_file at open(download_path, "wb")
DownloadOpen(p) ==
    /\ workers[p].op = "download_file" /\ workers[p].pc = "open"
    /\ LET f == open_wb(store, workers[p].args.download_path)
       IN  /\ store' = f.store
           /\ workers' =
                IF f.outcome.kind = "raised"
                THEN [workers EXCEPT ![p].pc = "done", ![p].result = Returned(FALSE)]
                ELSE [workers EXCEPT ![p].pc = "write"]
    /\ UNCHANGED StoreOnly

\* download_file from resp.contents.read() to its end: the bytes are written
\* to the open file; when reading them fails the created file stays as it is
DownloadWrite(p) ==
    /\ workers[p].op = "download_file" /\ workers[p].pc = "write"
    /\ workers' =
         IF contents_read(store, workers[p].file_name).kind = "raised"
         THEN [workers EXCEPT ![p].pc = "done", ![p].result = Returned(FALSE)]
         ELSE [workers EXCEPT ![p].pc = "done", ![p].result = Returned(TRUE)]
    /\ UNCHANGED store
    /\ UNCHANGED StoreOnly

\* the local path of a call: the file sent, or the file written
LocalPathOf(w) ==
    IF w.op = "upload_file" THEN w.args.file_path ELSE w.args.download_path

\* after its call has ended the caller removes its temporary file
LocalRemove(p) ==
    /\ workers[p].pc = "done"
    /\ store' = unlink(store, LocalPathOf(workers[p]))
    /\ workers' = [workers EXCEPT ![p].pc = "removed"]
    /\ UNCHANGED StoreOnly

NextUpload ==
    \E p \in Callers :
       \/ UploadLocalCheck(p)
       \/ UploadFileExists(p)
       \/ UploadOpen(p)
       \/ UploadSend(p)
       \/ DownloadRequest(p)
       \/ DownloadOpen(p)
       \/ DownloadWrite(p)
       \/ LocalRemove(p)

SpecUpload == InitUpload /\ [][NextUpload]_vars

\* what the claims about upload_file speak of: a caller's call ending in a
\* step, and the upload calls the client receives in the step
Ends(p) == workers[p].pc # "done" /\ workers'[p].pc = "done"
UploadCalls == Len(store'.uploads) - Len(store.uploads)

\* C27 as stated, for each step of an upload_file call: the local check ends
\* the call with FileNotFoundError exactly when the local file is missing;
\* the existence check ends it with FileAlreadyExistsError exactly when the
\* destination is in the volume and overwrite is False; neither calls the
\* upload; a call that passes both goes on to the upload, sends exactly one
\* and returns True or raises VolumeUploadError carrying the error of the
\* upload.
C27_UploadContract ==
    [][ \A p \in Callers :
          (workers[p].op = "upload_file" /\ workers'[p] # workers[p]) =>
             CASE workers[p].pc = "ready" ->
                    /\ UploadCalls = 0
                    /\ IF store.local[workers[p].args.file_path] = "missing"
                       THEN Ends(p) /\ workers'[p].result = Raised("FileNotFoundError")
                       ELSE ~Ends(p)
               [] workers[p].pc = "file_exists" ->
                    /\ UploadCalls = 0
                    /\ IF workers[p].file_name \in store.remote /\ ~workers[p].args.overwrite
                       THEN Ends(p) /\ workers'[p].result = Raised("FileAlreadyExistsError")
                       ELSE ~Ends(p)
               [] workers[p].pc = "upload" ->
                    /\ UploadCalls = 0
                    /\ ~Ends(p)
               [] workers[p].pc = "opened" ->
                    /\ UploadCalls = 1
                    /\ Ends(p)
                    /\ \/ workers'[p].result = Returned(TRUE)
                       \/ workers'[p].result = VolumeUploadError("upload_error")
               [] OTHER -> UploadCalls = 0 ]_vars

(* ------------------------- step and threshold ------------------------- *)
\* C28 as stated: in fixed-size mode, for every tile size >= 1 and overlap
\* ratio in [0,1), the integer step of each axis is at least 1 and tile_page
\* returns a list (stated for calls on a decodable page that pass both tile
\* counts, so that no configuration lookup is involved).
C28_StepAtLeastOne ==
    (Called /\ content.valid /\ FixedMode /\ CountsGiven) =>
        /\ Step(ReqWidth, EffOverlap) >= 1
        /\ Step(ReqHeight, EffOverlap) >= 1
        /\ DidReturn

\* the same call with another complexity threshold
WithThreshold(t) == tile_page(content, [args EXCEPT !.complexity_threshold = Some(t)], config)

\* C29: the bboxes returned with a positive threshold are among the bboxes
\* the same call returns with threshold 0, and the bboxes returned with any
\* larger threshold are among those returned with the smaller one; in both
\* tiling modes.
C29_ThresholdOnlyRemoves ==
    (DidReturn /\ content.valid /\ RatioPositive(EffThreshold)) =>
        /\ WithThreshold(Ratio(0, 1)).kind = "returned"
        /\ BBoxes(ret.value) \subseteq BBoxes(WithThreshold(Ratio(0, 1)).value)
        /\ \A t \in Thresholds :
              RatioLess(EffThreshold, t) =>
                  /\ WithThreshold(t).kind = "returned"
                  /\ BBoxes(WithThreshold(t).value) \subseteq BBoxes(ret.value)

\* a fixed-size call whose threshold removes some tiles and keeps others, and
\* a larger threshold that removes more
C29_Witness ==
    /\ DidReturn /\ content.valid /\ FixedMode /\ RatioPositive(EffThreshold)
    /\ ret.value # <<>>
    /\ BBoxes(ret.value) # BBoxes(WithThreshold(Ratio(0, 1)).value)
    /\ \E t \in Thresholds :
          /\ RatioLess(EffThreshold, t)
          /\ BBoxes(WithThreshold(t).value) # BBoxes(ret.value)

\* the same in grid mode
C29_WitnessGrid ==
    /\ DidReturn /\ content.valid /\ GridMode /\ RatioPositive(EffThreshold)
    /\ ret.value # <<>>
    /\ BBoxes(ret.value) # BBoxes(WithThreshold(Ratio(0, 1)).value)

\* C30 as stated: for an image with positive width and height that exceeds the
\* bounds, and positive max_width and max_height, the computed size has
\* width >= 1 and height >= 1, and the resize is carried out.
C30_ComputedSizePositive ==
    (Resized /\ ~WithinBounds) =>
        /\ ScaledInt(SrcWidth, Ratio(ScaleNum, ScaleDen)) >= 1
        /\ ScaledInt(SrcHeight, Ratio(ScaleNum, ScaleDen)) >= 1
        /\ ret.kind = "returned"

====
